---- MODULE Spec2Model ----
(***************************************************************************)
(* Behaviour analysis pipeline: sliding-window feature buffer              *)
(* (memory/feature_buffer.py), phone-risk fusion and main loop (main.py),  *)
(* temporal aggregator (signals/temporal_aggregator.py) and rule engine    *)
(* (inference/behavior_rules.py).                                          *)
(*                                                                         *)
(* Numbers.  Python floats in [0,1] are modelled as exact fixed-point      *)
(* integers in units of 1/One, so 1.0 is One and 0.85 * r is (r/20)*17.    *)
(* Timestamps are integer seconds.  A Python dict is a function whose      *)
(* DOMAIN is the set of keys present.  Python's None is None where a dict   *)
(* or an object is expected, NoneNum where a number is and NoneStr where a *)
(* string is.                                                              *)
(* identity_name, bbox, message and recommended_action are carried through *)
(* the code unchanged and read by no decision, so they are left out of the *)
(* records.                                                                *)
(***************************************************************************)
EXTENDS Integers, Sequences, FiniteSets, TLC

VARIABLES
    window_size,            \* FeatureBuffer.window_size
    buffers,                \* FeatureBuffer.buffers: track_id -> StudentFeatureBuffer
    student_phone_risk,     \* main: track_id -> fused phone risk
    phone_history,          \* TemporalAggregator.phone_history
    previous_metrics,       \* BehaviorRuleEngine.previous_metrics
    frame_sample_rate,      \* main: config["video"]["frame_sample_rate"]
    frame_count,            \* main: frame_count, kept modulo AggregateEvery
    timestamp,              \* main: timestamp of the current sampled frame
    students,               \* main: the student dicts of the last fused frame
    removed_students,       \* main: result of the last inactivity sweep
    behavioral_metrics,     \* main: current_behavioral_metrics (None off-tick)
    all_alerts,             \* main: all_alerts of the last tick (None off-tick)
    call,                   \* the last component call made directly, with its result
    in_order,               \* history: track_id -> its adds so far were non-decreasing in time
    risk_samples,           \* history: track_id -> phone-risk samples given to aggregate so far
    nobs,                   \* history: number of observations ingested (bounds the run)
    nframes                 \* history: number of sampled frames or direct calls (bounds the run)

vars == << window_size, buffers, student_phone_risk, phone_history,
           previous_metrics, frame_sample_rate, frame_count, timestamp,
           students, removed_students, behavioral_metrics, all_alerts, call,
           in_order, risk_samples, nobs, nframes >>

----------------------------------------------------------------------------
(* Bounds of the model *)

\* largest consecutive number of exact decays of the fused risk
MaxDecay == 3
\* observations ingested in one behaviour
MaxObs == 4
\* sampled frames of the main loop in one behaviour
MaxFrames == 4
\* largest timestamp handed to the buffer when it is driven directly
MaxTime == 1
\* observations added to the buffer when it is driven directly
MaxAdds == 3
\* aggregate calls made when the aggregator is driven directly
MaxSamples == 5
\* phone boxes detected in one frame
MaxPhones == 2
\* samples of a risk history handed to the trend classification
MaxHistory == 5
\* observations of a buffer whose statistics are computed directly
MaxFeatures == 4

\* the track ids the tracker hands out
TrackIds == {1, 2}

\* fixed-point unit: 1.0
One == 100 * (20 ^ MaxDecay)

\* Python None in place of a dict or object, of a number, of a string
None == << >>
NoneNum == -1
NoneStr == "None"

HeadDirections == {"forward", "left"}
Confidences == {One \div 2, (One \div 10) * 9}

----------------------------------------------------------------------------
(* Generic helpers *)

Max2(a, b) == IF a >= b THEN a ELSE b
Min2(a, b) == IF a <= b THEN a ELSE b

\* dict[k] = v
Put(f, k, v) == [x \in DOMAIN f \cup {k} |-> IF x = k THEN v ELSE f[x]]

\* dict without the keys in ks
Drop(f, ks) == [x \in DOMAIN f \ ks |-> f[x]]

EmptyDict == [x \in {} |-> 0]

RECURSIVE SumSeq(_)
SumSeq(s) == IF s = <<>> THEN 0 ELSE Head(s) + SumSeq(Tail(s))

\* Python round(num/den, 3) in units of 1/One: round half to even on the
\* thousandths of the exact quotient num/den (num, den in units of 1/One
\* and of 1 respectively).
Round3(num, den) ==
    LET q == den * (One \div 1000)
        lo == num \div q
        r2 == 2 * (num % q)
        milli == IF r2 < q THEN lo
                 ELSE IF r2 > q THEN lo + 1
                 ELSE IF lo % 2 = 0 THEN lo ELSE lo + 1
    IN  milli * (One \div 1000)

----------------------------------------------------------------------------
(* memory/feature_buffer.py *)

BufferedFeature(t, head, phone, conf) ==
    [timestamp |-> t, head_direction |-> head,
     phone_detected |-> phone, confidence |-> conf]

\* variant: the loop also pops an entry whose timestamp is the cutoff
RECURSIVE PopStaleInclusive(_, _)
PopStaleInclusive(features, cutoff_time) ==
    IF features # <<>> /\ Head(features).timestamp <= cutoff_time
    THEN PopStaleInclusive(Tail(features), cutoff_time)
    ELSE features

RECURSIVE PopStale(_, _)
PopStale(features, cutoff_time) ==
    IF features # <<>> /\ Head(features).timestamp < cutoff_time
    THEN PopStale(Tail(features), cutoff_time)
    ELSE features

\* variant: an `if` in place of the `while`, at most one entry is popped
PruneOldFeaturesOnce(features, current_timestamp, window) ==
    IF features # <<>> /\ Head(features).timestamp < current_timestamp - window
    THEN Tail(features)
    ELSE features

\* StudentFeatureBuffer._prune_old_features
PruneOldFeatures(features, current_timestamp, window) ==
    PopStale(features, current_timestamp - window)

\* StudentFeatureBuffer.__init__
NewStudentBuffer(window) ==
    [window_size |-> window, features |-> <<>>, last_update |-> NoneNum]

\* variant: the cutoff is taken one second later than the new timestamp
\* allows
AddFeatureOverPruning(buf, feature) ==
    [window_size |-> buf.window_size,
     features |-> PruneOldFeatures(Append(buf.features, feature),
                                   feature.timestamp + 1, buf.window_size),
     last_update |-> feature.timestamp]

\* StudentFeatureBuffer.add_feature
AddFeature(buf, feature) ==
    [window_size |-> buf.window_size,
     features |-> PruneOldFeatures(Append(buf.features, feature),
                                   feature.timestamp, buf.window_size),
     last_update |-> feature.timestamp]

\* FeatureBuffer.add_student_features: student_data maps each track_id of
\* the frame to its dict (track ids are unique within a frame).
AddStudentFeatures(bufs, window, t, student_data) ==
    [x \in DOMAIN bufs \cup DOMAIN student_data |->
        IF x \in DOMAIN student_data
        THEN AddFeature(IF x \in DOMAIN bufs THEN bufs[x]
                        ELSE NewStudentBuffer(window),
                        BufferedFeature(t, student_data[x].head_direction,
                                        student_data[x].phone_detected,
                                        student_data[x].confidence))
        ELSE bufs[x]]

\* variant: `>=` in place of `>` in the timeout test
InactiveStudentsAtTimeout(bufs, current_timestamp, timeout) ==
    {x \in DOMAIN bufs :
        /\ bufs[x].last_update # NoneNum
        /\ current_timestamp - bufs[x].last_update >= timeout}

\* the ids collected by the first loop of cleanup_inactive_students
InactiveStudents(bufs, current_timestamp, timeout) ==
    {x \in DOMAIN bufs :
        /\ bufs[x].last_update # NoneNum
        /\ current_timestamp - bufs[x].last_update > timeout}

\* FeatureBuffer.cleanup_inactive_students: the buffers left and the ids returned
CleanupInactiveStudents(bufs, current_timestamp, timeout) ==
    LET to_remove == InactiveStudents(bufs, current_timestamp, timeout)
    IN  [buffers |-> Drop(bufs, to_remove), removed |-> to_remove]


\* sum(1 for f in features_list if f.phone_detected)
CountPhone(features) ==
    Cardinality({i \in 1..Len(features) : features[i].phone_detected})

\* direction_count[direction]
CountDirection(features, direction) ==
    Cardinality({i \in 1..Len(features) : features[i].head_direction = direction})

RECURSIVE SumConfidence(_)
SumConfidence(features) ==
    IF features = <<>> THEN 0
    ELSE Head(features).confidence + SumConfidence(Tail(features))

\* statistics whose distribution fractions are cut to 3 decimals
GetStatisticsTruncated(track_id, buf) ==
    IF buf.features = <<>>
    THEN [track_id |-> track_id,
          feature_count |-> 0,
          time_span |-> 0,
          avg_confidence |-> 0,
          phone_detection_rate |-> 0,
          phone_detections |-> 0,
          head_direction_distribution |-> EmptyDict,
          most_recent_direction |-> NoneStr,
          last_update |-> buf.last_update]
    ELSE
      LET features_list == buf.features
          total == Len(features_list)
          phone_detections == CountPhone(features_list)
          directions == {features_list[i].head_direction : i \in 1..total}
          direction_count == [d \in directions |->
              CountDirection(features_list, d)]
      IN  [track_id |-> track_id,
           feature_count |-> total,
           time_span |-> IF total > 1
                         THEN features_list[total].timestamp - features_list[1].timestamp
                         ELSE 0,
           avg_confidence |-> Round3(SumConfidence(features_list), total),
           phone_detection_rate |-> Round3(phone_detections * One, total),
           phone_detections |-> phone_detections,
           head_direction_distribution |->
               [d \in directions |->
                   ((direction_count[d] * One) \div (total * (One \div 1000)))
                       * (One \div 1000)],
           most_recent_direction |-> features_list[total].head_direction,
           last_update |-> buf.last_update]

\* StudentFeatureBuffer.get_statistics.  The empty result of the code has no
\* time_span and most_recent_direction keys; they are given here the values
\* aggregate's buffer_stats.get(...) reads for a missing key.
GetStatistics(track_id, buf) ==
    IF buf.features = <<>>
    THEN [track_id |-> track_id,
          feature_count |-> 0,
          time_span |-> 0,
          avg_confidence |-> 0,
          phone_detection_rate |-> 0,
          phone_detections |-> 0,
          head_direction_distribution |-> EmptyDict,
          most_recent_direction |-> NoneStr,
          last_update |-> buf.last_update]
    ELSE
      LET features_list == buf.features
          total == Len(features_list)
          phone_detections == CountPhone(features_list)
          directions == {features_list[i].head_direction : i \in 1..total}
          direction_count == [d \in directions |->
              CountDirection(features_list, d)]
      IN  [track_id |-> track_id,
           feature_count |-> total,
           time_span |-> IF total > 1
                         THEN features_list[total].timestamp - features_list[1].timestamp
                         ELSE 0,
           avg_confidence |-> Round3(SumConfidence(features_list), total),
           phone_detection_rate |-> Round3(phone_detections * One, total),
           phone_detections |-> phone_detections,
           head_direction_distribution |->
               [d \in directions |-> Round3(direction_count[d] * One, total)],
           most_recent_direction |-> features_list[total].head_direction,
           last_update |-> buf.last_update]

\* FeatureBuffer.get_student_buffer
GetStudentBuffer(bufs, track_id) ==
    IF track_id \in DOMAIN bufs THEN bufs[track_id] ELSE None

\* a query that answers an unknown id with the statistics of an empty buffer
GetStudentStatisticsOrEmpty(bufs, track_id) ==
    IF track_id \in DOMAIN bufs
    THEN GetStatistics(track_id, bufs[track_id])
    ELSE GetStatistics(track_id, NewStudentBuffer(0))

\* FeatureBuffer.get_student_statistics
GetStudentStatistics(bufs, track_id) ==
    IF track_id \in DOMAIN bufs THEN GetStatistics(track_id, bufs[track_id]) ELSE None

\* FeatureBuffer.get_all_statistics
GetAllStatistics(bufs) ==
    [x \in DOMAIN bufs |-> GetStatistics(x, bufs[x])]

----------------------------------------------------------------------------
(* signals/temporal_aggregator.py *)

\* TemporalAggregator.cleanup_track_history
CleanupTrackHistory(history, track_id) ==
    IF track_id \in DOMAIN history THEN Drop(history, {track_id}) ELSE history

\* TemporalAggregator._calculate_phone_risk
CalculatePhoneRisk(current_phone_rate) ==
    Min2(One, Max2(0, current_phone_rate))

\* a classification that also reports a difference of exactly 0.1
CalculatePhoneTrendInclusive(history, track_id) ==
    IF track_id \notin DOMAIN history \/ Len(history[track_id]) < 2
    THEN "stable"
    ELSE
      LET h == history[track_id]
          n == Len(h)
          recent_sum == IF n >= 3 THEN h[n] + h[n-1] + h[n-2] ELSE h[n]
          recent_n == IF n >= 3 THEN 3 ELSE 1
          older_sum == IF n > 3 THEN SumSeq(SubSeq(h, 1, n - 3)) ELSE h[1]
          older_n == IF n > 3 THEN n - 3 ELSE 1
          threshold == (One \div 10) * recent_n * older_n
      IN  IF recent_sum * older_n >= older_sum * recent_n + threshold
          THEN "increasing"
          ELSE IF recent_sum * older_n <= older_sum * recent_n - threshold
               THEN "decreasing"
               ELSE "stable"

\* TemporalAggregator._calculate_phone_trend.  The averages are compared as
\* exact fractions recent_sum/recent_n and older_sum/older_n.
CalculatePhoneTrend(history, track_id) ==
    IF track_id \notin DOMAIN history \/ Len(history[track_id]) < 2
    THEN "stable"
    ELSE
      LET h == history[track_id]
          n == Len(h)
          recent_sum == IF n >= 3 THEN h[n] + h[n-1] + h[n-2] ELSE h[n]
          recent_n == IF n >= 3 THEN 3 ELSE 1
          older_sum == IF n > 3 THEN SumSeq(SubSeq(h, 1, n - 3)) ELSE h[1]
          older_n == IF n > 3 THEN n - 3 ELSE 1
          threshold == (One \div 10) * recent_n * older_n
      IN  IF recent_sum * older_n > older_sum * recent_n + threshold
          THEN "increasing"
          ELSE IF recent_sum * older_n < older_sum * recent_n - threshold
               THEN "decreasing"
               ELSE "stable"

\* a classification whose contact threshold is 0.2 instead of 0.3
DeterminePrimaryBehaviorFromFifth(attention_score, phone_rate) ==
    IF phone_rate > One \div 5 THEN "distracted_phone"
    ELSE IF attention_score < One \div 2 THEN "distracted_other"
    ELSE "attentive"

\* TemporalAggregator._determine_primary_behavior
DeterminePrimaryBehavior(attention_score, phone_rate) ==
    IF phone_rate > (One \div 10) * 3 THEN "distracted_phone"
    ELSE IF attention_score < One \div 2 THEN "distracted_other"
    ELSE "attentive"

\* a combination with the weights of attention and phone risk exchanged
CalculateEngagementRiskSwapped(attention_score, phone_risk, looking_away_rate) ==
    LET risk == ((One - attention_score) \div 100) * 35
                + (phone_risk \div 100) * 40
                + (looking_away_rate \div 100) * 25
    IN  Min2(One, Max2(0, risk))

\* TemporalAggregator._calculate_engagement_risk
CalculateEngagementRisk(attention_score, phone_risk, looking_away_rate) ==
    LET risk == ((One - attention_score) \div 100) * 40
                + (phone_risk \div 100) * 35
                + (looking_away_rate \div 100) * 25
    IN  Min2(One, Max2(0, risk))

\* a classification whose level high starts at 0.35
ClassifyRiskLevelHighFrom35(risk_score) ==
    IF risk_score < (One \div 100) * 33 THEN "low"
    ELSE IF risk_score < (One \div 100) * 35 THEN "medium"
    ELSE "high"

\* TemporalAggregator._classify_risk_level
ClassifyRiskLevel(risk_score) ==
    IF risk_score < (One \div 100) * 33 THEN "low"
    ELSE IF risk_score < (One \div 100) * 67 THEN "medium"
    ELSE "high"

\* TemporalAggregator._assess_data_quality
AssessDataQuality(sample_count, avg_confidence) ==
    IF sample_count < 5 \/ avg_confidence < (One \div 10) * 6 THEN "low"
    ELSE IF sample_count < 20 \/ avg_confidence < (One \div 100) * 75 THEN "medium"
    ELSE "high"

\* a default snapshot whose risk level is the class of its score 0.5
CreateEmptyMetricsMedium(track_id, current_timestamp) ==
    [track_id |-> track_id,
     timestamp |-> current_timestamp,
     observation_duration |-> 0,
     sample_count |-> 0,
     attention_score |-> One \div 2,
     looking_away_rate |-> One \div 2,
     direction_stability |-> 0,
     phone_risk_score |-> 0,
     phone_detection_rate |-> 0,
     phone_trend |-> "stable",
     engagement_risk_level |-> "medium",
     engagement_risk_score |-> One \div 2,
     primary_behavior |-> "unknown",
     avg_confidence |-> 0,
     data_quality |-> "low"]

\* TemporalAggregator._create_empty_metrics
CreateEmptyMetrics(track_id, current_timestamp) ==
    [track_id |-> track_id,
     timestamp |-> current_timestamp,
     observation_duration |-> 0,
     sample_count |-> 0,
     attention_score |-> One \div 2,
     looking_away_rate |-> One \div 2,
     direction_stability |-> 0,
     phone_risk_score |-> 0,
     phone_detection_rate |-> 0,
     phone_trend |-> "stable",
     engagement_risk_level |-> "low",
     engagement_risk_score |-> One \div 2,
     primary_behavior |-> "unknown",
     avg_confidence |-> 0,
     data_quality |-> "low"]

MaxOf(S) == CHOOSE x \in S : \A y \in S : y <= x

\* an attention score smoothed over the window: the rate of forward
\* observations
AttentionScoreSmoothed(buffer_stats) ==
    IF "forward" \in DOMAIN buffer_stats.head_direction_distribution
    THEN buffer_stats.head_direction_distribution["forward"]
    ELSE 0

\* aggregate, lines 102-109: the attention score from the most recent direction
AttentionScore(buffer_stats) ==
    IF buffer_stats.most_recent_direction = "forward" THEN One ELSE 0

\* a phone risk that takes a supplied raw risk of 0.0 as missing
PhoneRiskScoreOrRate(raw_phone_risk, phone_detection_rate) ==
    IF raw_phone_risk # NoneNum /\ raw_phone_risk # 0 THEN raw_phone_risk
    ELSE CalculatePhoneRisk(phone_detection_rate)

\* aggregate, lines 122-126: the raw risk if given, else the clamped rate
PhoneRiskScore(raw_phone_risk, phone_detection_rate) ==
    IF raw_phone_risk # NoneNum THEN raw_phone_risk
    ELSE CalculatePhoneRisk(phone_detection_rate)

\* TemporalAggregator.aggregate: the snapshot returned.  The call assigns
\* nothing to self.phone_history.
Aggregate(history, track_id, current_timestamp, buffer_stats, raw_phone_risk) ==
    LET sample_count == buffer_stats.feature_count
        phone_detection_rate == buffer_stats.phone_detection_rate
        head_directions == buffer_stats.head_direction_distribution
        attention_score == AttentionScore(buffer_stats)
        looking_away_rate == One - attention_score
        direction_stability ==
            IF DOMAIN head_directions # {}
            THEN MaxOf({head_directions[d] : d \in DOMAIN head_directions})
            ELSE One \div 2
        phone_risk_score == PhoneRiskScore(raw_phone_risk, phone_detection_rate)
        phone_trend == CalculatePhoneTrend(history, track_id)
        engagement_risk_score ==
            CalculateEngagementRisk(attention_score, phone_risk_score, looking_away_rate)
    IN  IF sample_count = 0
        THEN CreateEmptyMetrics(track_id, current_timestamp)
        ELSE [track_id |-> track_id,
              timestamp |-> current_timestamp,
              observation_duration |-> buffer_stats.time_span,
              sample_count |-> sample_count,
              attention_score |-> attention_score,
              looking_away_rate |-> looking_away_rate,
              direction_stability |-> direction_stability,
              phone_risk_score |-> phone_risk_score,
              phone_detection_rate |-> phone_detection_rate,
              phone_trend |-> phone_trend,
              engagement_risk_level |-> ClassifyRiskLevel(engagement_risk_score),
              engagement_risk_score |-> engagement_risk_score,
              primary_behavior |->
                  DeterminePrimaryBehavior(attention_score, phone_detection_rate),
              avg_confidence |-> buffer_stats.avg_confidence,
              data_quality |-> AssessDataQuality(sample_count, buffer_stats.avg_confidence)]

\* TemporalAggregationPipeline.aggregate_all: raw_phone_risk.get(track_id) is
\* None for an entity without an entry.
AggregateAll(history, current_timestamp, all_buffer_stats, raw_phone_risk) ==
    [x \in DOMAIN all_buffer_stats |->
        Aggregate(history, x, current_timestamp, all_buffer_stats[x],
                  IF x \in DOMAIN raw_phone_risk THEN raw_phone_risk[x] ELSE NoneNum)]

----------------------------------------------------------------------------
(* inference/behavior_rules.py *)

\* the thresholds main passes to BehaviorRuleEngine (the defaults of __init__)
RuleConfig ==
    [attention_threshold |-> One \div 2,
     phone_risk_threshold |-> (One \div 10) * 4,
     engagement_risk_threshold |-> (One \div 10) * 6,
     min_samples_for_alert |-> 5]

\* BehaviorAlert, without its texts
BehaviorAlert(metrics, alert_type, alert_level) ==
    [track_id |-> metrics.track_id,
     timestamp |-> metrics.timestamp,
     alert_type |-> alert_type,
     alert_level |-> alert_level]

\* a short-circuit that lets snapshots of 2 samples through to the rules
LowQualitySkipBelow2(metrics) ==
    metrics.data_quality = "low" /\ metrics.sample_count < 2

\* a short-circuit that also takes snapshots of exactly 3 samples
LowQualitySkipUpTo3(metrics) ==
    metrics.data_quality = "low" /\ metrics.sample_count <= 3

\* the branch of evaluate that returns before any rule runs
LowQualitySkip(metrics) ==
    metrics.data_quality = "low" /\ metrics.sample_count < 3

\* BehaviorRuleEngine._rule_high_risk
RuleHighRisk(metrics) ==
    BehaviorAlert(metrics, "HIGH_RISK_BEHAVIOR", "CRITICAL")

\* a severity that is CRITICAL up to and including attention 0.3
RuleSustainedInattentionInclusive(metrics) ==
    BehaviorAlert(metrics, "SUSTAINED_INATTENTION",
        IF metrics.attention_score <= (One \div 10) * 3 THEN "CRITICAL" ELSE "WARNING")

\* BehaviorRuleEngine._rule_sustained_inattention
RuleSustainedInattention(metrics) ==
    BehaviorAlert(metrics, "SUSTAINED_INATTENTION",
        IF metrics.attention_score < (One \div 10) * 3 THEN "CRITICAL" ELSE "WARNING")

\* a severity that is CRITICAL from phone risk 0.6 on
RulePhoneUsageInclusive(metrics) ==
    BehaviorAlert(metrics, "PHONE_USAGE",
        IF metrics.phone_risk_score >= (One \div 10) * 6 THEN "CRITICAL" ELSE "WARNING")

\* BehaviorRuleEngine._rule_phone_usage
RulePhoneUsage(metrics) ==
    BehaviorAlert(metrics, "PHONE_USAGE",
        IF metrics.phone_risk_score > (One \div 10) * 6 THEN "CRITICAL" ELSE "WARNING")

\* BehaviorRuleEngine._rule_phone_increasing
RulePhoneIncreasing(metrics) ==
    BehaviorAlert(metrics, "PHONE_USAGE_INCREASING", "WARNING")

\* BehaviorRuleEngine._rule_combined_distraction
RuleCombinedDistraction(metrics) ==
    BehaviorAlert(metrics, "COMBINED_DISTRACTION", "CRITICAL")

\* an attention-drop rule without the condition on sample_count
RuleAttentionDropAnySamples(prev_metrics, metrics) ==
    IF metrics.track_id \notin DOMAIN prev_metrics
    THEN <<>>
    ELSE LET prev == prev_metrics[metrics.track_id]
             attention_change == metrics.attention_score - prev.attention_score
         IN  IF attention_change < 0 - (One \div 10) * 3
             THEN << BehaviorAlert(metrics, "ATTENTION_DROP", "WARNING") >>
             ELSE <<>>

\* BehaviorRuleEngine._rule_attention_drop: the alert list it contributes
\* (empty for a None result)
RuleAttentionDrop(prev_metrics, metrics) ==
    IF metrics.track_id \notin DOMAIN prev_metrics
    THEN <<>>
    ELSE LET prev == prev_metrics[metrics.track_id]
             attention_change == metrics.attention_score - prev.attention_score
         IN  IF attention_change < 0 - (One \div 10) * 3 /\ metrics.sample_count >= 5
             THEN << BehaviorAlert(metrics, "ATTENTION_DROP", "WARNING") >>
             ELSE <<>>

\* a slot update that keeps the snapshot of the evaluated entity only
UpdateHistoryOnly(prev_metrics, metrics) ==
    Put(EmptyDict, metrics.track_id, metrics)

\* the slot update at the end of evaluate
UpdateHistory(prev_metrics, metrics) ==
    Put(prev_metrics, metrics.track_id, metrics)

\* an evaluate whose high-risk rule compares the score with
\* engagement_risk_threshold
EvaluateByThreshold(cfg, prev_metrics, metrics) ==
    IF LowQualitySkip(metrics)
    THEN [alerts |-> IF metrics.sample_count > 0
                     THEN << BehaviorAlert(metrics, "QUALITY_WARNING", "INFO") >>
                     ELSE <<>>,
          previous_metrics |-> prev_metrics]
    ELSE
      LET a1 == IF metrics.engagement_risk_score > cfg.engagement_risk_threshold
                THEN << RuleHighRisk(metrics) >> ELSE <<>>
          a2 == IF /\ metrics.attention_score < cfg.attention_threshold
                   /\ metrics.sample_count >= cfg.min_samples_for_alert
                THEN << RuleSustainedInattention(metrics) >> ELSE <<>>
          a3 == IF metrics.phone_risk_score > cfg.phone_risk_threshold
                THEN << RulePhoneUsage(metrics) >> ELSE <<>>
          a4 == IF /\ metrics.phone_trend = "increasing"
                   /\ metrics.phone_detection_rate > (One \div 10) * 2
                THEN << RulePhoneIncreasing(metrics) >> ELSE <<>>
          a5 == IF /\ metrics.phone_risk_score > (One \div 10) * 3
                   /\ metrics.looking_away_rate > (One \div 10) * 6
                THEN << RuleCombinedDistraction(metrics) >> ELSE <<>>
          a6 == RuleAttentionDrop(prev_metrics, metrics)
      IN  [alerts |-> a1 \o a2 \o a3 \o a4 \o a5 \o a6,
           previous_metrics |-> UpdateHistory(prev_metrics, metrics)]

\* BehaviorRuleEngine.evaluate: the alerts returned and previous_metrics afterwards
Evaluate(cfg, prev_metrics, metrics) ==
    IF LowQualitySkip(metrics)
    THEN [alerts |-> IF metrics.sample_count > 0
                     THEN << BehaviorAlert(metrics, "QUALITY_WARNING", "INFO") >>
                     ELSE <<>>,
          previous_metrics |-> prev_metrics]
    ELSE
      LET a1 == IF metrics.engagement_risk_level = "high"
                THEN << RuleHighRisk(metrics) >> ELSE <<>>
          a2 == IF /\ metrics.attention_score < cfg.attention_threshold
                   /\ metrics.sample_count >= cfg.min_samples_for_alert
                THEN << RuleSustainedInattention(metrics) >> ELSE <<>>
          a3 == IF metrics.phone_risk_score > cfg.phone_risk_threshold
                THEN << RulePhoneUsage(metrics) >> ELSE <<>>
          a4 == IF /\ metrics.phone_trend = "increasing"
                   /\ metrics.phone_detection_rate > (One \div 10) * 2
                THEN << RulePhoneIncreasing(metrics) >> ELSE <<>>
          a5 == IF /\ metrics.phone_risk_score > (One \div 10) * 3
                   /\ metrics.looking_away_rate > (One \div 10) * 6
                THEN << RuleCombinedDistraction(metrics) >> ELSE <<>>
          a6 == RuleAttentionDrop(prev_metrics, metrics)
      IN  [alerts |-> a1 \o a2 \o a3 \o a4 \o a5 \o a6,
           previous_metrics |-> UpdateHistory(prev_metrics, metrics)]

\* an evaluate_all that keeps the entities whose alert list is empty
RECURSIVE EvaluateAllKeepEmpty(_, _, _, _)
EvaluateAllKeepEmpty(order, cfg, prev_metrics, all_behavioral_metrics) ==
    IF order = <<>>
    THEN [all_alerts |-> EmptyDict, previous_metrics |-> prev_metrics]
    ELSE LET track_id == Head(order)
             r == Evaluate(cfg, prev_metrics, all_behavioral_metrics[track_id])
             rest == EvaluateAllKeepEmpty(Tail(order), cfg, r.previous_metrics,
                                          all_behavioral_metrics)
         IN  [all_alerts |-> Put(rest.all_alerts, track_id, r.alerts),
              previous_metrics |-> rest.previous_metrics]

\* BehaviorRuleEngine.evaluate_all: evaluate is called on the entries of
\* the dict one after the other, in the order given by the sequence of keys
\* order; an entry is kept in the result only if its alert list is non-empty.
RECURSIVE EvaluateAll(_, _, _, _)
EvaluateAll(order, cfg, prev_metrics, all_behavioral_metrics) ==
    IF order = <<>>
    THEN [all_alerts |-> EmptyDict, previous_metrics |-> prev_metrics]
    ELSE LET track_id == Head(order)
             r == Evaluate(cfg, prev_metrics, all_behavioral_metrics[track_id])
             rest == EvaluateAll(Tail(order), cfg, r.previous_metrics,
                                 all_behavioral_metrics)
         IN  [all_alerts |-> IF r.alerts # <<>>
                             THEN Put(rest.all_alerts, track_id, r.alerts)
                             ELSE rest.all_alerts,
              previous_metrics |-> rest.previous_metrics]

\* the orders in which a dict with the keys S can be iterated
Orders(S) ==
    {o \in [1..Cardinality(S) -> S] : \A i, j \in DOMAIN o : i # j => o[i] # o[j]}

----------------------------------------------------------------------------
(* main.py: the loop of main() *)

\* FeatureBuffer(window_size=20.0)
MainWindowSize == 20
\* cleanup_inactive_students(timestamp, timeout=300.0)
MainTimeout == 300
\* if frame_count % 10 == 0
AggregateEvery == 10

\* config["video"]["frame_sample_rate"] values considered
FrameSampleRates == {5, 10}
\* seconds elapsed before a sampled frame with tracked students
Deltas == {1}
\* seconds elapsed before a sampled frame without tracked students
IdleDeltas == {300}
\* detection confidences of the tracker considered in the loop
FrameConfidences == {(One \div 10) * 9}

\* a decay by 0.9 instead of 0.85
DecaySlow(current_risk) == (current_risk \div 10) * 9

\* current_risk * 0.85
Decay(current_risk) == (current_risk \div 20) * 17

\* the product above is exact in the fixed-point unit
ExactDecay(current_risk) == current_risk % 2000 = 0

\* an update in which a contact frame raises the risk by 0.5 instead of
\* setting it to 1.0
UpdatePhoneRiskRaise(risk, frame_students) ==
    [x \in DOMAIN risk \cup DOMAIN frame_students |->
        IF x \in DOMAIN frame_students
        THEN IF frame_students[x].phone_detected
             THEN Min2(One, (IF x \in DOMAIN risk THEN risk[x] ELSE 0) + One \div 2)
             ELSE Decay(IF x \in DOMAIN risk THEN risk[x] ELSE 0)
        ELSE risk[x]]

\* an update that also decays the risk of the entities absent from the frame
UpdatePhoneRiskDecayAbsent(risk, frame_students) ==
    [x \in DOMAIN risk \cup DOMAIN frame_students |->
        IF x \in DOMAIN frame_students /\ frame_students[x].phone_detected
        THEN One
        ELSE Decay(IF x \in DOMAIN risk THEN risk[x] ELSE 0)]

\* the phone-risk update at the end of the fusion loop, for every student of
\* the frame; student["phone_detected"] is has_phone
UpdatePhoneRisk(risk, frame_students) ==
    [x \in DOMAIN risk \cup DOMAIN frame_students |->
        IF x \in DOMAIN frame_students
        THEN IF frame_students[x].phone_detected
             THEN One
             ELSE Decay(IF x \in DOMAIN risk THEN risk[x] ELSE 0)
        ELSE risk[x]]

\* the student dicts a frame can carry: any set of tracked ids, each with a
\* head direction, a detection confidence and the has_phone flag computed by
\* the association loop
FrameStudents(confs) ==
    UNION {[V -> [head_direction : HeadDirections,
                  confidence : confs,
                  phone_detected : BOOLEAN]] : V \in SUBSET TrackIds}

\* time.time() - start_time; the clock origin is taken at the first sampled frame
FrameTime(dt) == IF nframes = 0 THEN 0 ELSE timestamp + dt

\* frame_count after the skipped iterations up to the next sampled frame
NextFrameCount == (frame_count + frame_sample_rate) % AggregateEvery

\* A sampled frame in which no player is tracked: `continue` before any update.
EmptyFrame(dt) ==
    /\ nframes < MaxFrames
    /\ nframes' = nframes + 1
    /\ frame_count' = NextFrameCount
    /\ timestamp' = FrameTime(dt)
    /\ UNCHANGED << window_size, buffers, student_phone_risk, phone_history,
                    previous_metrics, frame_sample_rate, students,
                    removed_students, behavioral_metrics, all_alerts, call,
                    in_order, risk_samples, nobs >>

\* A sampled frame with tracked students: fusion (steps 7), buffer update
\* (step 9), inactivity sweep and, every AggregateEvery frames, aggregation
\* and rule evaluation (step 10).  The dict of metrics is iterated in the
\* insertion order of the buffers, which the model leaves open: any order.
SampledFrame(dt, frame_students) ==
    LET t == FrameTime(dt)
        risk == UpdatePhoneRisk(student_phone_risk, frame_students)
        added == AddStudentFeatures(buffers, window_size, t, frame_students)
        swept == CleanupInactiveStudents(added, t, MainTimeout)
        all_stats == GetAllStatistics(swept.buffers)
        metrics == AggregateAll(phone_history, t, all_stats, risk)
    IN  /\ nframes < MaxFrames
        /\ DOMAIN frame_students # {}
        /\ nobs + Cardinality(DOMAIN frame_students) <= MaxObs
        /\ \A x \in DOMAIN frame_students :
              (~frame_students[x].phone_detected /\ x \in DOMAIN student_phone_risk)
                  => ExactDecay(student_phone_risk[x])
        /\ nframes' = nframes + 1
        /\ nobs' = nobs + Cardinality(DOMAIN frame_students)
        /\ frame_count' = NextFrameCount
        /\ timestamp' = t
        /\ students' = frame_students
        /\ student_phone_risk' = risk
        /\ buffers' = swept.buffers
        /\ removed_students' = swept.removed
        /\ IF NextFrameCount % AggregateEvery = 0
           THEN \E order \in Orders(DOMAIN metrics) :
                  LET evaluated == EvaluateAll(order, RuleConfig,
                                               previous_metrics, metrics)
                  IN  /\ behavioral_metrics' = metrics
                      /\ all_alerts' = evaluated.all_alerts
                      /\ previous_metrics' = evaluated.previous_metrics
           ELSE /\ behavioral_metrics' = None
                /\ all_alerts' = None
                /\ UNCHANGED previous_metrics
        /\ UNCHANGED << window_size, phone_history, frame_sample_rate, call,
                        in_order, risk_samples >>

Init ==
    /\ window_size = MainWindowSize
    /\ buffers = EmptyDict
    /\ student_phone_risk = EmptyDict
    /\ phone_history = EmptyDict
    /\ previous_metrics = EmptyDict
    /\ frame_sample_rate \in FrameSampleRates
    /\ frame_count = 0
    /\ timestamp = 0
    /\ students = EmptyDict
    /\ removed_students = {}
    /\ behavioral_metrics = None
    /\ all_alerts = None
    /\ call = [op |-> "none", value |-> None]
    /\ in_order = EmptyDict
    /\ risk_samples = EmptyDict
    /\ nobs = 0
    /\ nframes = 0

Next ==
    \/ \E dt \in IdleDeltas : EmptyFrame(dt)
    \/ \E dt \in Deltas, frame_students \in FrameStudents(FrameConfidences) :
          SampledFrame(dt, frame_students)

Spec == Init /\ [][Next]_vars

----------------------------------------------------------------------------
(* FeatureBuffer driven directly through its public methods, with any       *)
(* timestamps, any window size and any timeout.                             *)

BufTimes == 0..MaxTime
WindowSizes == {0, 1}
Timeouts == {0, 1}

\* student_data lists of at most one dict: add_student_features handles the
\* dicts of a list one after the other, so a longer list acts as the
\* successive calls with its elements at the same timestamp.
BufStudents ==
    UNION {[V -> [head_direction : HeadDirections,
                  confidence : FrameConfidences,
                  phone_detected : {FALSE}]] :
           V \in {S \in SUBSET TrackIds : Cardinality(S) <= 1}}

\* the adds of an entity stay in order when each timestamp is at least the
\* entity's last_update; a new buffer starts in order
InOrderAfter(t, student_data) ==
    [x \in DOMAIN in_order \cup DOMAIN student_data |->
        IF x \in DOMAIN student_data
        THEN IF x \in DOMAIN buffers
             THEN in_order[x] /\ t >= buffers[x].last_update
             ELSE TRUE
        ELSE in_order[x]]

\* feature_buffer.add_student_features(t, student_data)
BufAdd(t, student_data) ==
    /\ nobs + Cardinality(DOMAIN student_data) <= MaxAdds
    /\ nobs' = nobs + Cardinality(DOMAIN student_data)
    /\ buffers' = AddStudentFeatures(buffers, window_size, t, student_data)
    /\ in_order' = InOrderAfter(t, student_data)
    /\ call' = [op |-> "add_student_features", value |-> None]
    /\ UNCHANGED << window_size, student_phone_risk, phone_history,
                    previous_metrics, frame_sample_rate, frame_count,
                    timestamp, students, removed_students,
                    behavioral_metrics, all_alerts, risk_samples, nframes >>

\* feature_buffer.cleanup_inactive_students(now, timeout)
BufCleanup(now, timeout) ==
    LET swept == CleanupInactiveStudents(buffers, now, timeout)
    IN  /\ buffers' = swept.buffers
        /\ in_order' = Drop(in_order, swept.removed)
        /\ call' = [op |-> "cleanup_inactive_students", value |-> swept.removed]
        /\ UNCHANGED << window_size, student_phone_risk, phone_history,
                        previous_metrics, frame_sample_rate, frame_count,
                        timestamp, students, removed_students,
                        behavioral_metrics, all_alerts, risk_samples, nobs,
                        nframes >>

\* feature_buffer.get_student_buffer(track_id)
BufGetStudentBuffer(track_id) ==
    /\ call' = [op |-> "get_student_buffer",
                value |-> GetStudentBuffer(buffers, track_id)]
    /\ UNCHANGED << window_size, buffers, student_phone_risk, phone_history,
                    previous_metrics, frame_sample_rate, frame_count,
                    timestamp, students, removed_students,
                    behavioral_metrics, all_alerts, in_order, risk_samples,
                    nobs, nframes >>

\* feature_buffer.get_student_statistics(track_id)
BufGetStudentStatistics(track_id) ==
    /\ call' = [op |-> "get_student_statistics",
                value |-> GetStudentStatistics(buffers, track_id)]
    /\ UNCHANGED << window_size, buffers, student_phone_risk, phone_history,
                    previous_metrics, frame_sample_rate, frame_count,
                    timestamp, students, removed_students,
                    behavioral_metrics, all_alerts, in_order, risk_samples,
                    nobs, nframes >>

\* feature_buffer.get_all_statistics()
BufGetAllStatistics ==
    /\ call' = [op |-> "get_all_statistics",
                value |-> GetAllStatistics(buffers)]
    /\ UNCHANGED << window_size, buffers, student_phone_risk, phone_history,
                    previous_metrics, frame_sample_rate, frame_count,
                    timestamp, students, removed_students,
                    behavioral_metrics, all_alerts, in_order, risk_samples,
                    nobs, nframes >>

\* StudentFeatureBuffer(track_id, window_size).get_statistics(): the
\* statistics of a buffer that holds no entry
BufGetStatisticsOfNew(track_id) ==
    /\ call' = [op |-> "get_statistics",
                value |-> GetStatistics(track_id, NewStudentBuffer(window_size))]
    /\ UNCHANGED << window_size, buffers, student_phone_risk, phone_history,
                    previous_metrics, frame_sample_rate, frame_count,
                    timestamp, students, removed_students,
                    behavioral_metrics, all_alerts, in_order, risk_samples,
                    nobs, nframes >>

InitBuffer ==
    /\ window_size \in WindowSizes
    /\ buffers = EmptyDict
    /\ student_phone_risk = EmptyDict
    /\ phone_history = EmptyDict
    /\ previous_metrics = EmptyDict
    /\ frame_sample_rate = 1
    /\ frame_count = 0
    /\ timestamp = 0
    /\ students = EmptyDict
    /\ removed_students = {}
    /\ behavioral_metrics = None
    /\ all_alerts = None
    /\ call = [op |-> "none", value |-> None]
    /\ in_order = EmptyDict
    /\ risk_samples = EmptyDict
    /\ nobs = 0
    /\ nframes = 0

NextBuffer ==
    \/ \E t \in BufTimes, student_data \in BufStudents : BufAdd(t, student_data)
    \/ \E now \in BufTimes \cup {MaxTime + 1, MaxTime + 2}, timeout \in Timeouts :
          BufCleanup(now, timeout)
    \/ \E track_id \in TrackIds : BufGetStudentBuffer(track_id)
    \/ \E track_id \in TrackIds : BufGetStudentStatistics(track_id)
    \/ BufGetAllStatistics
    \/ \E track_id \in TrackIds : BufGetStatisticsOfNew(track_id)

SpecBuffer == InitBuffer /\ [][NextBuffer]_vars

----------------------------------------------------------------------------
(* BehaviorRuleEngine driven through evaluate, with any snapshot *)

\* the metric values of the snapshots handed to evaluate
RuleSampleCounts == {0, 2, 5}
RuleQualities == {"low", "medium"}
RuleAttentions == {0, One}
RulePhoneRisks == {0, One}
RuleTrends == {"stable", "increasing"}

\* a BehavioralMetrics object with these values; the remaining fields are
\* filled as aggregate fills them
MetricsInput(track_id, sample_count, data_quality, attention_score, phone_risk_score, phone_trend) ==
    LET looking_away_rate == One - attention_score
        engagement_risk_score ==
            CalculateEngagementRisk(attention_score, phone_risk_score, looking_away_rate)
    IN  [track_id |-> track_id,
         timestamp |-> 0,
         observation_duration |-> 0,
         sample_count |-> sample_count,
         attention_score |-> attention_score,
         looking_away_rate |-> looking_away_rate,
         direction_stability |-> One,
         phone_risk_score |-> phone_risk_score,
         phone_detection_rate |-> phone_risk_score,
         phone_trend |-> phone_trend,
         engagement_risk_level |-> ClassifyRiskLevel(engagement_risk_score),
         engagement_risk_score |-> engagement_risk_score,
         primary_behavior |->
             DeterminePrimaryBehavior(attention_score, phone_risk_score),
         avg_confidence |-> (One \div 10) * 9,
         data_quality |-> data_quality]

RuleMetrics ==
    {MetricsInput(x, n, q, a, p, tr) :
        x \in TrackIds, n \in RuleSampleCounts, q \in RuleQualities,
        a \in RuleAttentions, p \in RulePhoneRisks, tr \in RuleTrends}

\* rule_engine.evaluate(metrics)
RulesEvaluate(metrics) ==
    LET r == Evaluate(RuleConfig, previous_metrics, metrics)
    IN  /\ previous_metrics' = r.previous_metrics
        /\ call' = [op |-> "evaluate", metrics |-> metrics, value |-> r.alerts]
        /\ UNCHANGED << window_size, buffers, student_phone_risk, phone_history,
                        frame_sample_rate, frame_count, timestamp, students,
                        removed_students, behavioral_metrics, all_alerts,
                        in_order, risk_samples, nobs, nframes >>

\* BehaviorRuleEngine(config) as main builds it
InitRules ==
    /\ window_size = MainWindowSize
    /\ buffers = EmptyDict
    /\ student_phone_risk = EmptyDict
    /\ phone_history = EmptyDict
    /\ previous_metrics = EmptyDict
    /\ frame_sample_rate = 1
    /\ frame_count = 0
    /\ timestamp = 0
    /\ students = EmptyDict
    /\ removed_students = {}
    /\ behavioral_metrics = None
    /\ all_alerts = None
    /\ call = [op |-> "none", value |-> None]
    /\ in_order = EmptyDict
    /\ risk_samples = EmptyDict
    /\ nobs = 0
    /\ nframes = 0

NextRules == \E metrics \in RuleMetrics : RulesEvaluate(metrics)

SpecRules == InitRules /\ [][NextRules]_vars

----------------------------------------------------------------------------
(* TemporalAggregator driven through aggregate and cleanup_track_history *)

\* current_timestamp values
AggTimes == {0, 1}
\* raw_phone_risk values: None, 0.1, 0.9
AggRisks == {NoneNum, One \div 10, (One \div 10) * 9}

\* the buffers whose statistics are aggregated: one never fed, one with a
\* forward observation, one with a sideways observation, and two with an
\* observation of each direction, in either order
AggBuffers ==
    {NewStudentBuffer(MainWindowSize)} \cup
    {AddFeature(NewStudentBuffer(MainWindowSize),
                BufferedFeature(0, head, FALSE, (One \div 10) * 9)) :
        head \in HeadDirections} \cup
    {AddFeature(AddFeature(NewStudentBuffer(MainWindowSize),
                           BufferedFeature(0, heads[1], FALSE, (One \div 10) * 9)),
                BufferedFeature(1, heads[2], FALSE, (One \div 10) * 9)) :
        heads \in {h \in HeadDirections \X HeadDirections : h[1] # h[2]}}

\* buffer_stats arguments: get_statistics() of those buffers, and a dict with
\* feature_count 0 whose other keys are those of a fed buffer
AggStats(track_id) ==
    {GetStatistics(track_id, buf) : buf \in AggBuffers} \cup
    {[GetStatistics(track_id, buf) EXCEPT !.feature_count = 0] :
        buf \in {b \in AggBuffers : b.features # << >> /\
                     b.features[1].head_direction = "left"}}

\* the value aggregate hands to _calculate_phone_trend
TrendSample(buffer_stats, raw_phone_risk) ==
    IF raw_phone_risk # NoneNum THEN raw_phone_risk
    ELSE buffer_stats.phone_detection_rate

\* aggregator.aggregate(track_id, current_timestamp, buffer_stats, raw_phone_risk).
\* risk_samples records, per entity, the samples of its calls that reached
\* the trend classification.
AggAggregate(track_id, current_timestamp, buffer_stats, raw_phone_risk) ==
    /\ nobs < MaxSamples
    /\ nobs' = nobs + 1
    /\ phone_history' = phone_history
    /\ risk_samples' =
          IF buffer_stats.feature_count = 0
          THEN risk_samples
          ELSE Put(risk_samples, track_id,
                   Append(IF track_id \in DOMAIN risk_samples
                          THEN risk_samples[track_id] ELSE << >>,
                          TrendSample(buffer_stats, raw_phone_risk)))
    /\ call' = [op |-> "aggregate",
                track_id |-> track_id,
                current_timestamp |-> current_timestamp,
                buffer_stats |-> buffer_stats,
                raw_phone_risk |-> raw_phone_risk,
                value |-> Aggregate(phone_history, track_id, current_timestamp,
                                    buffer_stats, raw_phone_risk)]
    /\ UNCHANGED << window_size, buffers, student_phone_risk, previous_metrics,
                    frame_sample_rate, frame_count, timestamp, students,
                    removed_students, behavioral_metrics, all_alerts,
                    in_order, nframes >>

\* aggregator.cleanup_track_history(track_id)
AggCleanupTrackHistory(track_id) ==
    /\ phone_history' = CleanupTrackHistory(phone_history, track_id)
    /\ risk_samples' = Drop(risk_samples, {track_id})
    /\ call' = [op |-> "cleanup_track_history", track_id |-> track_id,
                value |-> None]
    /\ UNCHANGED << window_size, buffers, student_phone_risk, previous_metrics,
                    frame_sample_rate, frame_count, timestamp, students,
                    removed_students, behavioral_metrics, all_alerts,
                    in_order, nobs, nframes >>

\* TemporalAggregator()
InitAgg ==
    /\ window_size = MainWindowSize
    /\ buffers = EmptyDict
    /\ student_phone_risk = EmptyDict
    /\ phone_history = EmptyDict
    /\ previous_metrics = EmptyDict
    /\ frame_sample_rate = 1
    /\ frame_count = 0
    /\ timestamp = 0
    /\ students = EmptyDict
    /\ removed_students = {}
    /\ behavioral_metrics = None
    /\ all_alerts = None
    /\ call = [op |-> "none", value |-> None]
    /\ in_order = EmptyDict
    /\ risk_samples = EmptyDict
    /\ nobs = 0
    /\ nframes = 0

NextAgg ==
    \/ \E track_id \in TrackIds, current_timestamp \in AggTimes,
          raw_phone_risk \in AggRisks :
          \E buffer_stats \in AggStats(track_id) :
              AggAggregate(track_id, current_timestamp, buffer_stats, raw_phone_risk)
    \/ \E track_id \in TrackIds : AggCleanupTrackHistory(track_id)

SpecAgg == InitAgg /\ [][NextAgg]_vars

----------------------------------------------------------------------------
(* BehaviorRuleEngine driven through evaluate, with snapshots of one entity  *)
(* whose attention and phone risk sit on and around the rule thresholds      *)

\* attention scores 0.0, 0.3, 0.4, 0.5, 1.0
LevelAttentions ==
    {0, (One \div 10) * 3, (One \div 10) * 4, One \div 2, One}
\* phone risk scores 0.0, 0.4, 0.5, 0.6, 1.0
LevelPhoneRisks ==
    {0, (One \div 10) * 4, One \div 2, (One \div 10) * 6, One}

LevelMetrics ==
    {MetricsInput(1, n, q, a, p, "stable") :
        n \in RuleSampleCounts, q \in RuleQualities,
        a \in LevelAttentions, p \in LevelPhoneRisks}

NextLevels == \E metrics \in LevelMetrics : RulesEvaluate(metrics)

SpecLevels == InitRules /\ [][NextLevels]_vars

----------------------------------------------------------------------------
(* BehaviorRuleEngine driven through evaluate_all *)

\* the snapshots of an entity handed to evaluate_all: no phone risk, the
\* quality aggregate assigns to the sample count at confidence 0.9
EvaluateAllMetrics(track_id) ==
    {MetricsInput(track_id, n, AssessDataQuality(n, (One \div 10) * 9), a, 0, "stable") :
        n \in RuleSampleCounts, a \in RuleAttentions}

\* the dicts track_id -> BehavioralMetrics handed to evaluate_all
EvaluateAllInputs ==
    UNION {{m \in [V -> UNION {EvaluateAllMetrics(x) : x \in V}] :
                \A x \in V : m[x].track_id = x} : V \in SUBSET TrackIds}

\* rule_engine.evaluate_all(all_behavioral_metrics), the dict being iterated
\* in the order given
RulesEvaluateAll(all_behavioral_metrics, order) ==
    LET r == EvaluateAll(order, RuleConfig, previous_metrics, all_behavioral_metrics)
    IN  /\ previous_metrics' = r.previous_metrics
        /\ call' = [op |-> "evaluate_all",
                    all_behavioral_metrics |-> all_behavioral_metrics,
                    value |-> r.all_alerts]
        /\ UNCHANGED << window_size, buffers, student_phone_risk, phone_history,
                        frame_sample_rate, frame_count, timestamp, students,
                        removed_students, behavioral_metrics, all_alerts,
                        in_order, risk_samples, nobs, nframes >>

NextEvaluateAll ==
    \E all_behavioral_metrics \in EvaluateAllInputs :
        \E order \in Orders(DOMAIN all_behavioral_metrics) :
            RulesEvaluateAll(all_behavioral_metrics, order)

SpecEvaluateAll == InitRules /\ [][NextEvaluateAll]_vars

----------------------------------------------------------------------------
(* TemporalAggregationPipeline driven through aggregate_all *)

\* buffers behind the statistics: never fed, one frame without contact, one
\* frame in contact, a frame in contact followed by one without
PipelineBuffers ==
    {NewStudentBuffer(MainWindowSize)} \cup
    {AddFeature(NewStudentBuffer(MainWindowSize),
                BufferedFeature(0, "forward", phone, (One \div 10) * 9)) :
        phone \in BOOLEAN} \cup
    {AddFeature(AddFeature(NewStudentBuffer(MainWindowSize),
                           BufferedFeature(0, "forward", TRUE, (One \div 10) * 9)),
                BufferedFeature(1, "left", FALSE, (One \div 10) * 9))}

\* the buffers of any of the entities, whose statistics are all_buffer_stats
PipelineFeatureBuffers ==
    UNION {[ids -> PipelineBuffers] : ids \in SUBSET TrackIds}

\* values of the raw_phone_risk argument: 0.0, 0.3, 1.0
PipelineRisks == {0, (One \div 10) * 3, One}

\* raw_phone_risk arguments: a risk for any of the entities (None is
\* replaced by the empty dict)
PipelineRawRisks ==
    UNION {[ids -> PipelineRisks] : ids \in SUBSET TrackIds}

\* pipeline.aggregate_all(current_timestamp, all_buffer_stats, raw_phone_risk)
PipelineAggregateAll(current_timestamp, bufs, raw_phone_risk) ==
    LET all_buffer_stats == [x \in DOMAIN bufs |-> GetStatistics(x, bufs[x])]
    IN  /\ call' = [op |-> "aggregate_all",
                    current_timestamp |-> current_timestamp,
                    all_buffer_stats |-> all_buffer_stats,
                    raw_phone_risk |-> raw_phone_risk,
                    value |-> AggregateAll(phone_history, current_timestamp,
                                           all_buffer_stats, raw_phone_risk)]
        /\ UNCHANGED << window_size, buffers, student_phone_risk, phone_history,
                        previous_metrics, frame_sample_rate, frame_count,
                        timestamp, students, removed_students,
                        behavioral_metrics, all_alerts, in_order, risk_samples,
                        nobs, nframes >>

NextPipeline ==
    \E current_timestamp \in AggTimes, bufs \in PipelineFeatureBuffers,
       raw_phone_risk \in PipelineRawRisks :
        PipelineAggregateAll(current_timestamp, bufs, raw_phone_risk)

SpecPipeline == InitAgg /\ [][NextPipeline]_vars

----------------------------------------------------------------------------
(* main.py: phone association (signal fusion, step 7) for one student *)

\* boxes are <<x1, y1, x2, y2>> with x1 <= x2 and y1 <= y2
InterArea(boxA, boxB) ==
    LET xA == Max2(boxA[1], boxB[1])
        yA == Max2(boxA[2], boxB[2])
        xB == Min2(boxA[3], boxB[3])
        yB == Min2(boxA[4], boxB[4])
    IN  Max2(0, xB - xA) * Max2(0, yB - yA)

BoxArea(box) == (box[3] - box[1]) * (box[4] - box[2])

\* iou(boxA, boxB), as the fraction num/den
Iou(boxA, boxB) ==
    LET interArea == InterArea(boxA, boxB)
        unionArea == BoxArea(boxA) + BoxArea(boxB) - interArea
    IN  IF unionArea = 0
        THEN [num |-> 0, den |-> 1]
        ELSE [num |-> interArea, den |-> unionArea]

\* intersection_over_phone(box_student, box_phone), as the fraction num/den
IntersectionOverPhone(box_student, box_phone) ==
    LET phoneArea == Max2(0, BoxArea(box_phone))
    IN  IF phoneArea = 0
        THEN [num |-> 0, den |-> 1]
        ELSE [num |-> InterArea(box_student, box_phone), den |-> phoneArea]

\* phone_center_inside(student_box, phone_box); cx = (x1 + x2) / 2.0 is
\* compared after doubling both sides
PhoneCenterInside(student_box, phone_box) ==
    /\ 2 * student_box[1] <= phone_box[1] + phone_box[3]
    /\ phone_box[1] + phone_box[3] <= 2 * student_box[3]
    /\ 2 * student_box[2] <= phone_box[2] + phone_box[4]
    /\ phone_box[2] + phone_box[4] <= 2 * student_box[4]

\* an association test for the mode "iou" that accepts IoU = iou_threshold
PhoneMatchesInclusive(config, student_box, phone_box) ==
    IF config.phone_overlap_mode = "iou"
    THEN Iou(student_box, phone_box).num * One
            >= config.iou_threshold * Iou(student_box, phone_box).den
    ELSE IF config.phone_overlap_mode = "center"
    THEN PhoneCenterInside(student_box, phone_box)
    ELSE IntersectionOverPhone(student_box, phone_box).num * One
            >= config.phone_overlap_threshold
               * IntersectionOverPhone(student_box, phone_box).den

\* the test made on one phone box in the fusion loop; an unknown mode is
\* treated as "ratio"
PhoneMatches(config, student_box, phone_box) ==
    IF config.phone_overlap_mode = "iou"
    THEN Iou(student_box, phone_box).num * One
            > config.iou_threshold * Iou(student_box, phone_box).den
    ELSE IF config.phone_overlap_mode = "center"
    THEN PhoneCenterInside(student_box, phone_box)
    ELSE IntersectionOverPhone(student_box, phone_box).num * One
            >= config.phone_overlap_threshold
               * IntersectionOverPhone(student_box, phone_box).den

\* the loop over phone_boxes: has_phone, with a break at the first match
RECURSIVE HasPhone(_, _, _)
HasPhone(config, student_box, phone_boxes) ==
    IF phone_boxes = << >> THEN FALSE
    ELSE IF PhoneMatches(config, student_box, Head(phone_boxes)) THEN TRUE
    ELSE HasPhone(config, student_box, Tail(phone_boxes))

\* config["fusion"]: the mode and the thresholds 0.25/0.5 and 0.5/1.0
FusionConfigs ==
    [phone_overlap_mode : {"iou", "ratio", "center", "other"},
     iou_threshold : {One \div 4, One \div 2},
     phone_overlap_threshold : {One \div 2, One}]

\* student boxes
StudentBoxes == {<< 0, 0, 2, 2 >>, << 1, 1, 3, 3 >>}

\* phone boxes: inside, across the edge, outside and without area
PhoneBoxes ==
    {<< x[1], y[1], x[2], y[2] >> :
        x \in {<< 0, 1 >>, << 1, 2 >>, << 1, 3 >>, << 2, 4 >>, << 3, 4 >>, << 2, 2 >>},
        y \in {<< 0, 2 >>, << 1, 3 >>}}

\* the phone_boxes lists of a frame
PhoneBoxLists == UNION {[1..n -> PhoneBoxes] : n \in 0..MaxPhones}

\* the association loop run for one student of a frame
FusionAssociate ==
    /\ call.op = "fusion_input"
    /\ call' = [op |-> "fusion",
                config |-> call.config,
                bbox |-> call.bbox,
                phone_boxes |-> call.phone_boxes,
                has_phone |-> HasPhone(call.config, call.bbox, call.phone_boxes)]
    /\ UNCHANGED << window_size, buffers, student_phone_risk, phone_history,
                    previous_metrics, frame_sample_rate, frame_count, timestamp,
                    students, removed_students, behavioral_metrics, all_alerts,
                    in_order, risk_samples, nobs, nframes >>

\* a configuration, a student box and the phone boxes of a frame
InitFusion ==
    /\ window_size = MainWindowSize
    /\ buffers = EmptyDict
    /\ student_phone_risk = EmptyDict
    /\ phone_history = EmptyDict
    /\ previous_metrics = EmptyDict
    /\ frame_sample_rate = 1
    /\ frame_count = 0
    /\ timestamp = 0
    /\ students = EmptyDict
    /\ removed_students = {}
    /\ behavioral_metrics = None
    /\ all_alerts = None
    /\ call \in [op : {"fusion_input"}, config : FusionConfigs,
                 bbox : StudentBoxes, phone_boxes : PhoneBoxLists]
    /\ in_order = EmptyDict
    /\ risk_samples = EmptyDict
    /\ nobs = 0
    /\ nframes = 0

NextFusion == FusionAssociate

SpecFusion == InitFusion /\ [][NextFusion]_vars

----------------------------------------------------------------------------
(* TemporalAggregator._calculate_phone_trend applied to a given history *)

\* risk samples of the histories: 0.0, 0.1, 0.5, 1.0
TrendValues == {0, One \div 10, One \div 2, One}

\* the histories of one entity: up to two samples of any of the values, and
\* longer ones of 0.0, 0.5 and 1.0, whose means differ by a multiple of 1/12
\* and so never sit within a rounding error of the 0.1 tolerance
TrendHistories ==
    UNION {[1..n -> TrendValues] : n \in 0..2} \cup
    UNION {[1..n -> {0, One \div 2, One}] : n \in 3..MaxHistory}

\* the values of self.phone_history seen by a call for track_id: no entry,
\* or an entry with one of the histories
TrendPhoneHistories(track_id) ==
    {EmptyDict} \cup {Put(EmptyDict, track_id, h) : h \in TrendHistories}

\* aggregator._calculate_phone_trend(track_id, current_phone_rate) with the
\* drawn phone_history
TrendCalculate ==
    /\ call.op = "trend_input"
    /\ call' = [op |-> "calculate_phone_trend",
                track_id |-> call.track_id,
                phone_history |-> call.phone_history,
                value |-> CalculatePhoneTrend(call.phone_history, call.track_id)]
    /\ UNCHANGED << window_size, buffers, student_phone_risk, phone_history,
                    previous_metrics, frame_sample_rate, frame_count, timestamp,
                    students, removed_students, behavioral_metrics, all_alerts,
                    in_order, risk_samples, nobs, nframes >>

\* a track id and the history held for it
InitTrend ==
    /\ window_size = MainWindowSize
    /\ buffers = EmptyDict
    /\ student_phone_risk = EmptyDict
    /\ phone_history = EmptyDict
    /\ previous_metrics = EmptyDict
    /\ frame_sample_rate = 1
    /\ frame_count = 0
    /\ timestamp = 0
    /\ students = EmptyDict
    /\ removed_students = {}
    /\ behavioral_metrics = None
    /\ all_alerts = None
    /\ \E track_id \in TrackIds :
          call \in [op : {"trend_input"}, track_id : {track_id},
                    phone_history : TrendPhoneHistories(track_id)]
    /\ in_order = EmptyDict
    /\ risk_samples = EmptyDict
    /\ nobs = 0
    /\ nframes = 0

NextTrend == TrendCalculate

SpecTrend == InitTrend /\ [][NextTrend]_vars

----------------------------------------------------------------------------
(* StudentFeatureBuffer.get_statistics applied to a given window *)

\* head directions of the observations: three of the values of
\* estimate_head_direction
StatDirections == {"forward", "left", "down"}

\* the windows: up to MaxFeatures observations, one a second, of any of the
\* directions
StatBuffers ==
    {[window_size |-> MainWindowSize,
      features |-> [i \in 1..n |->
                        BufferedFeature(i - 1, heads[i], FALSE, (One \div 10) * 9)],
      last_update |-> IF n = 0 THEN NoneNum ELSE n - 1] :
        n \in 0..MaxFeatures, heads \in [1..MaxFeatures -> StatDirections]}

\* buffer.get_statistics() of the drawn buffer
StatGetStatistics ==
    /\ call.op = "statistics_input"
    /\ call' = [op |-> "get_statistics",
                track_id |-> call.track_id,
                buffer |-> call.buffer,
                value |-> GetStatistics(call.track_id, call.buffer)]
    /\ UNCHANGED << window_size, buffers, student_phone_risk, phone_history,
                    previous_metrics, frame_sample_rate, frame_count, timestamp,
                    students, removed_students, behavioral_metrics, all_alerts,
                    in_order, risk_samples, nobs, nframes >>

\* a StudentFeatureBuffer and its content
InitStat ==
    /\ window_size = MainWindowSize
    /\ buffers = EmptyDict
    /\ student_phone_risk = EmptyDict
    /\ phone_history = EmptyDict
    /\ previous_metrics = EmptyDict
    /\ frame_sample_rate = 1
    /\ frame_count = 0
    /\ timestamp = 0
    /\ students = EmptyDict
    /\ removed_students = {}
    /\ behavioral_metrics = None
    /\ all_alerts = None
    /\ call \in [op : {"statistics_input"}, track_id : {1}, buffer : StatBuffers]
    /\ in_order = EmptyDict
    /\ risk_samples = EmptyDict
    /\ nobs = 0
    /\ nframes = 0

NextStat == StatGetStatistics

SpecStat == InitStat /\ [][NextStat]_vars

----------------------------------------------------------------------------
(* The aggregator feeding the rule engine: aggregate, then evaluate *)

\* the windows aggregated: none, 2 or 5 observations, one a second, without
\* contact; the first and the last observation have any direction, those in
\* between are sideways
ChainBuffers ==
    {NewStudentBuffer(MainWindowSize)} \cup
    {[window_size |-> MainWindowSize,
      features |-> [i \in 1..n |->
                        BufferedFeature(i - 1,
                                        IF i = 1 THEN first
                                        ELSE IF i = n THEN last ELSE "left",
                                        FALSE, (One \div 10) * 9)],
      last_update |-> n - 1] :
        n \in {2, 5}, first \in HeadDirections, last \in HeadDirections}

\* fused risks handed to aggregate: none, 0.5, 1.0
ChainRisks == {NoneNum, One \div 2, One}

\* metrics = aggregator.aggregate(track_id, t, buffer.get_statistics(), risk)
\* followed by rule_engine.evaluate(metrics)
ChainAggregateEvaluate(track_id, buf, raw_phone_risk) ==
    LET buffer_stats == GetStatistics(track_id, buf)
        metrics == Aggregate(phone_history, track_id, 0, buffer_stats, raw_phone_risk)
        r == Evaluate(RuleConfig, previous_metrics, metrics)
    IN  /\ previous_metrics' = r.previous_metrics
        /\ call' = [op |-> "aggregate_evaluate",
                    buffer_stats |-> buffer_stats,
                    raw_phone_risk |-> raw_phone_risk,
                    metrics |-> metrics,
                    value |-> r.alerts]
        /\ UNCHANGED << window_size, buffers, student_phone_risk, phone_history,
                        frame_sample_rate, frame_count, timestamp, students,
                        removed_students, behavioral_metrics, all_alerts,
                        in_order, risk_samples, nobs, nframes >>

NextChain ==
    \E track_id \in TrackIds, buf \in ChainBuffers, raw_phone_risk \in ChainRisks :
        ChainAggregateEvaluate(track_id, buf, raw_phone_risk)

SpecChain == InitRules /\ [][NextChain]_vars

----------------------------------------------------------------------------
(* Properties *)

\* every observation retained for x is inside the window that ends at the
\* timestamp of x's most recent insertion
WithinWindow(x) ==
    \A i \in 1..Len(buffers[x].features) :
        buffers[x].features[i].timestamp
            >= buffers[x].last_update - buffers[x].window_size

\* C1 (as stated): after any sequence of add_feature calls, whatever the
\* timestamps, every observation retained in an entity's buffer has
\* timestamp >= (timestamp of the most recent insertion) - window_size.
C1_WindowInvariantAnyTimestamps ==
    \A x \in DOMAIN buffers : WithinWindow(x)

\* C1 (amended): the window invariant holds for every entity whose
\* observations were added with non-decreasing timestamps.
C1_WindowInvariantInOrder ==
    \A x \in DOMAIN buffers : in_order[x] => WithinWindow(x)

\* an add has just pruned around an in-order buffer: two or more entries are
\* retained and the oldest sits exactly on the edge of the window
C1_Witness ==
    /\ call.op = "add_student_features"
    /\ \E x \in DOMAIN buffers :
          /\ in_order[x]
          /\ buffers[x].window_size > 0
          /\ Len(buffers[x].features) >= 2
          /\ buffers[x].features[1].timestamp
                = buffers[x].last_update - buffers[x].window_size

\* C3: a sweep cleanup_inactive_students(now, timeout) leaves alone (and does
\* not return) every entity with now - last_update <= timeout, returns and
\* removes every entity with now - last_update > timeout, and never returns
\* an entity that has no buffer (so an evicted entity is returned by one
\* sweep only); an entity without a buffer is absent from get_student_buffer,
\* get_student_statistics and get_all_statistics.
C3_EvictionCascade ==
    [][ /\ \A now \in BufTimes \cup {MaxTime + 1, MaxTime + 2}, timeout \in Timeouts :
            BufCleanup(now, timeout) =>
                /\ \A x \in DOMAIN buffers :
                      IF now - buffers[x].last_update > timeout
                      THEN x \in call'.value /\ x \notin DOMAIN buffers'
                      ELSE /\ x \notin call'.value
                           /\ x \in DOMAIN buffers'
                           /\ buffers'[x] = buffers[x]
                /\ \A x \in TrackIds \ DOMAIN buffers :
                      x \notin call'.value /\ x \notin DOMAIN buffers'
        /\ \A x \in TrackIds \ DOMAIN buffers :
              /\ BufGetStudentBuffer(x) => call'.value = None
              /\ BufGetStudentStatistics(x) => call'.value = None
              /\ BufGetAllStatistics => x \notin DOMAIN call'.value
      ]_vars

\* a sweep has just evicted one entity and kept another
C3_Witness ==
    /\ call.op = "cleanup_inactive_students"
    /\ call.value # {}
    /\ DOMAIN buffers # {}

----------------------------------------------------------------------------
(* Properties of the main loop *)

\* C2: after every fused frame each stored risk lies in [0, 1]; the risk of
\* an entity of the frame is exactly 1.0 if the frame found it in contact,
\* and exactly 0.85 times its previous value (0 if it had none) if the frame
\* saw it without contact.  A fused frame is a step that buffers
\* observations; students' is the student list of that frame.
C2_DecayBounds ==
    [][ nobs' > nobs =>
          /\ \A x \in DOMAIN student_phone_risk' :
                0 <= student_phone_risk'[x] /\ student_phone_risk'[x] <= One
          /\ \A x \in DOMAIN students' :
                /\ x \in DOMAIN student_phone_risk'
                /\ students'[x].phone_detected
                      => student_phone_risk'[x] = One
                /\ ~students'[x].phone_detected
                      => 20 * student_phone_risk'[x]
                           = 17 * (IF x \in DOMAIN student_phone_risk
                                   THEN student_phone_risk[x] ELSE 0)
      ]_vars

\* an entity was in contact and has then been seen twice without contact:
\* its risk is 0.85 * 0.85
C2_Witness ==
    \E x \in DOMAIN students :
        /\ ~students[x].phone_detected
        /\ student_phone_risk[x] = (One \div 400) * 289

\* C4 (as stated): an entity without a buffer (never seen, or evicted by the
\* sweep) has no phone risk, no trend history and no previous snapshot.
C4_EvictionClearsAll ==
    \A x \in TrackIds \ DOMAIN buffers :
        /\ x \notin DOMAIN student_phone_risk
        /\ x \notin DOMAIN phone_history
        /\ x \notin DOMAIN previous_metrics

\* the observations of x are those of the frames t = 0, 1, 2, each facing
\* forward and without contact
QuietHistory(x, n) ==
    /\ Len(buffers[x].features) >= n
    /\ \A i \in 1..n :
          /\ buffers[x].features[i].timestamp = i - 1
          /\ buffers[x].features[i].head_direction = "forward"
          /\ ~buffers[x].features[i].phone_detected

\* the alert list of x at the last aggregation holds an alert of this type
HasAlert(x, alert_type) ==
    /\ x \in DOMAIN all_alerts
    /\ \E i \in 1..Len(all_alerts[x]) : all_alerts[x][i].alert_type = alert_type

\* C8: an entity observed at t = 0, 1, 2 facing forward with no contact has,
\* at the aggregation of t = 2, attention 1.0, phone risk 0.0, a low risk
\* level and no alert.
C8_QuietScenario ==
    (timestamp = 2 /\ behavioral_metrics # None) =>
        \A x \in DOMAIN buffers :
            (Len(buffers[x].features) = 3 /\ QuietHistory(x, 3)) =>
                /\ x \in DOMAIN behavioral_metrics
                /\ behavioral_metrics[x].attention_score = One
                /\ behavioral_metrics[x].phone_risk_score = 0
                /\ behavioral_metrics[x].engagement_risk_level = "low"
                /\ x \notin DOMAIN all_alerts

\* the aggregation of t = 2 has just run on such an entity
C8_Witness ==
    /\ timestamp = 2
    /\ behavioral_metrics # None
    /\ \E x \in DOMAIN buffers :
          /\ Len(buffers[x].features) = 3
          /\ QuietHistory(x, 3)
          /\ behavioral_metrics[x].sample_count = 3

\* the most recent frame that saw x found it in contact
LastFrameInContact(x) ==
    /\ Len(buffers[x].features) > 0
    /\ buffers[x].features[Len(buffers[x].features)].phone_detected

\* C9 (as stated): at an aggregation that follows a contact frame of an
\* entity with no non-contact frame of it in between, the fused risk is 1.0,
\* the snapshot's phone_risk_score is 1.0 and a PHONE_USAGE alert is emitted
\* for the entity.
C9_ContactAlwaysAlerts ==
    behavioral_metrics # None =>
        \A x \in DOMAIN buffers :
            LastFrameInContact(x) =>
                /\ student_phone_risk[x] = One
                /\ behavioral_metrics[x].phone_risk_score = One
                /\ HasAlert(x, "PHONE_USAGE")

\* C9 (amended): the risk and the snapshot are as stated; the PHONE_USAGE
\* alert is emitted provided the entity's window holds at least 3
\* observations, and with fewer the only alert is the QUALITY_WARNING.
C9_ContactAlertsFromThreeSamples ==
    behavioral_metrics # None =>
        \A x \in DOMAIN buffers :
            LastFrameInContact(x) =>
                /\ student_phone_risk[x] = One
                /\ behavioral_metrics[x].phone_risk_score = One
                /\ IF Len(buffers[x].features) >= 3
                   THEN HasAlert(x, "PHONE_USAGE")
                   ELSE /\ ~HasAlert(x, "PHONE_USAGE")
                        /\ HasAlert(x, "QUALITY_WARNING")

\* the scenario of the claim: quiet at t = 0, 1, 2, contact at t = 3, and the
\* aggregation of t = 3 has just run
C9_Witness ==
    /\ timestamp = 3
    /\ behavioral_metrics # None
    /\ \E x \in DOMAIN buffers :
          /\ Len(buffers[x].features) = 4
          /\ QuietHistory(x, 3)
          /\ LastFrameInContact(x)
          /\ HasAlert(x, "PHONE_USAGE")

----------------------------------------------------------------------------
(* Properties of the rule engine *)

\* C5: evaluate on a snapshot with data_quality low and 0 < sample_count < 3
\* returns exactly one alert, QUALITY_WARNING at level INFO, whatever the
\* other metrics and the previous snapshot are; with sample_count 0 it
\* returns the empty list.
C5_LowQualityShortCircuit ==
    (call.op = "evaluate" /\ call.metrics.data_quality = "low"
                          /\ call.metrics.sample_count < 3) =>
        IF call.metrics.sample_count > 0
        THEN call.value = << [track_id |-> call.metrics.track_id,
                              timestamp |-> call.metrics.timestamp,
                              alert_type |-> "QUALITY_WARNING",
                              alert_level |-> "INFO"] >>
        ELSE call.value = << >>

\* a low-quality snapshot of 2 samples whose metrics would otherwise fire the
\* rules (risk 1.0, attention 0.0, increasing trend) has been evaluated for
\* an entity whose previous snapshot had attention 1.0
C5_Witness ==
    /\ call.op = "evaluate"
    /\ call.metrics.data_quality = "low"
    /\ call.metrics.sample_count = 2
    /\ call.metrics.phone_risk_score = One
    /\ call.metrics.attention_score = 0
    /\ call.metrics.phone_trend = "increasing"
    /\ Len(call.value) = 1
    /\ call.metrics.track_id \in DOMAIN previous_metrics
    /\ previous_metrics[call.metrics.track_id].attention_score = One

\* C6 (as stated): after every call evaluate(metrics) the previous-snapshot
\* slot of metrics.track_id holds exactly the snapshot just evaluated.
C6_SlotHoldsLastEvaluated ==
    call.op = "evaluate" =>
        /\ call.metrics.track_id \in DOMAIN previous_metrics
        /\ previous_metrics[call.metrics.track_id] = call.metrics

----------------------------------------------------------------------------
(* Properties of the aggregator *)

\* the samples 0.1, 0.1, 0.9, 0.9, 0.9
RisingSamples ==
    << One \div 10, One \div 10,
       (One \div 10) * 9, (One \div 10) * 9, (One \div 10) * 9 >>

\* C7 (as stated): the aggregator keeps per entity the history of the risk
\* samples of its successive aggregations, and an entity whose samples were
\* 0.1, 0.1, 0.9, 0.9, 0.9 gets phone_trend increasing in the snapshot of the
\* last call.
C7_TrendFromHistory ==
    (/\ call.op = "aggregate"
     /\ call.buffer_stats.feature_count > 0
     /\ call.track_id \in DOMAIN risk_samples
     /\ risk_samples[call.track_id] = RisingSamples) =>
        /\ call.track_id \in DOMAIN phone_history
        /\ phone_history[call.track_id] = RisingSamples
        /\ call.value.phone_trend = "increasing"

\* C10: aggregate on statistics with sample count 0 returns the fixed neutral
\* snapshot for the entity and time of the call (attention 0.5, phone risk 0,
\* trend stable, level low, primary behaviour unknown, quality low), whatever
\* the fused-risk argument and the earlier calls, and leaves the aggregator's
\* history as it was.
C10_IdempotentEmptyAggregation ==
    [][ (call'.op = "aggregate" /\ call'.buffer_stats.feature_count = 0) =>
          /\ call'.value =
                [track_id |-> call'.track_id,
                 timestamp |-> call'.current_timestamp,
                 observation_duration |-> 0,
                 sample_count |-> 0,
                 attention_score |-> One \div 2,
                 looking_away_rate |-> One \div 2,
                 direction_stability |-> 0,
                 phone_risk_score |-> 0,
                 phone_detection_rate |-> 0,
                 phone_trend |-> "stable",
                 engagement_risk_level |-> "low",
                 engagement_risk_score |-> One \div 2,
                 primary_behavior |-> "unknown",
                 avg_confidence |-> 0,
                 data_quality |-> "low"]
          /\ phone_history' = phone_history
      ]_vars

\* an empty aggregation with fused risk 0.9 has just run for an entity that
\* was aggregated with data before
C10_Witness ==
    /\ call.op = "aggregate"
    /\ call.buffer_stats.feature_count = 0
    /\ call.raw_phone_risk = (One \div 10) * 9
    /\ call.track_id \in DOMAIN risk_samples
    /\ call.value.sample_count = 0

----------------------------------------------------------------------------
(* Properties of the snapshots *)

\* C11: every snapshot the loop builds from a non-empty window has
\* engagement_risk_score = 0.4 * (1 - attention_score) + 0.35 * phone_risk_score
\* + 0.25 * looking_away_rate, clamped to [0, 1]; with attention 0.0, phone
\* risk 1.0 and looking-away 1.0 the score is 1.0 and the level is high.
C11_RiskFormula ==
    behavioral_metrics # None =>
        \A x \in DOMAIN behavioral_metrics :
            LET m == behavioral_metrics[x]
                weighted == 40 * (One - m.attention_score)
                            + 35 * m.phone_risk_score
                            + 25 * m.looking_away_rate
            IN  m.sample_count > 0 =>
                  /\ 100 * m.engagement_risk_score
                        = Min2(100 * One, Max2(0, weighted))
                  /\ (m.attention_score = 0 /\ m.phone_risk_score = One
                                            /\ m.looking_away_rate = One)
                        => (m.engagement_risk_score = One
                            /\ m.engagement_risk_level = "high")

\* a snapshot with attention 0.0, phone risk 1.0 and looking-away 1.0 has
\* been built, and another with a decayed risk
C11_Witness ==
    /\ behavioral_metrics # None
    /\ \E x \in DOMAIN behavioral_metrics :
          /\ behavioral_metrics[x].sample_count > 0
          /\ behavioral_metrics[x].attention_score = 0
          /\ behavioral_metrics[x].phone_risk_score = One
          /\ behavioral_metrics[x].engagement_risk_level = "high"
    /\ \E x \in DOMAIN behavioral_metrics :
          /\ behavioral_metrics[x].phone_risk_score = (One \div 20) * 17
          /\ behavioral_metrics[x].attention_score = One

\* C12 (as stated): in every snapshot returned by aggregate, attention_score
\* is exactly 0 or 1, 1.0 iff the most recent buffered head direction is
\* forward, and looking_away_rate = 1 - attention_score.
C12_BinaryAttention ==
    call.op = "aggregate" =>
        /\ call.value.attention_score \in {0, One}
        /\ call.value.attention_score = One
              <=> call.buffer_stats.most_recent_direction = "forward"
        /\ call.value.looking_away_rate = One - call.value.attention_score

\* C12 (amended): the above holds for every snapshot built from a non-empty
\* window, whatever the earlier observations; the snapshot of an empty
\* window has attention_score and looking_away_rate 0.5.
C12_BinaryAttentionNonEmpty ==
    call.op = "aggregate" =>
        IF call.buffer_stats.feature_count > 0
        THEN /\ call.value.attention_score \in {0, One}
             /\ call.value.attention_score = One
                   <=> call.buffer_stats.most_recent_direction = "forward"
             /\ call.value.looking_away_rate = One - call.value.attention_score
        ELSE /\ call.value.attention_score = One \div 2
             /\ call.value.looking_away_rate = One \div 2

\* a window whose earlier observation was sideways and whose most recent one
\* is forward has been aggregated: attention 1.0
C12_Witness ==
    /\ call.op = "aggregate"
    /\ call.buffer_stats.feature_count = 2
    /\ call.buffer_stats.most_recent_direction = "forward"
    /\ "left" \in DOMAIN call.buffer_stats.head_direction_distribution
    /\ call.value.attention_score = One

----------------------------------------------------------------------------
(* Properties of the rules *)

\* the positions of the alerts of a type in an alert list
AlertsOfType(alerts, alert_type) ==
    {i \in 1..Len(alerts) : alerts[i].alert_type = alert_type}

\* the snapshot takes the low-quality short-circuit of evaluate
ShortCircuited(metrics) ==
    metrics.data_quality = "low" /\ metrics.sample_count < 3

\* C13: an evaluate call that is not short-circuited emits an ATTENTION_DROP
\* alert, of level WARNING, exactly when a snapshot was stored for the entity
\* before the call, attention_score - previous.attention_score < -0.3 and
\* sample_count >= 5; an entity without a stored snapshot never gets it.
C13_AttentionDrop ==
    [][ (call'.op = "evaluate" /\ ~ShortCircuited(call'.metrics)) =>
          LET m == call'.metrics
              drops == AlertsOfType(call'.value, "ATTENTION_DROP")
          IN  /\ drops # {}
                    <=> /\ m.track_id \in DOMAIN previous_metrics
                        /\ 10 * (m.attention_score
                                 - previous_metrics[m.track_id].attention_score)
                              < 0 - 3 * One
                        /\ m.sample_count >= 5
              /\ Cardinality(drops) <= 1
              /\ \A i \in drops : call'.value[i].alert_level = "WARNING"
              /\ m.track_id \notin DOMAIN previous_metrics => drops = {}
      ]_vars

\* an attention drop has just been reported: the stored snapshot is the one
\* just evaluated, with attention 0.0
C13_Witness ==
    /\ call.op = "evaluate"
    /\ AlertsOfType(call.value, "ATTENTION_DROP") # {}
    /\ call.metrics.attention_score = 0
    /\ previous_metrics[call.metrics.track_id] = call.metrics

\* C14: an evaluate call that is not short-circuited emits a
\* SUSTAINED_INATTENTION alert iff attention_score < 0.5 (the
\* attention_threshold) and sample_count >= 5 (min_samples_for_alert); its
\* level is CRITICAL if attention_score < 0.3 and WARNING otherwise.
C14_SustainedInattention ==
    (call.op = "evaluate" /\ ~ShortCircuited(call.metrics)) =>
        LET m == call.metrics
            hits == AlertsOfType(call.value, "SUSTAINED_INATTENTION")
        IN  /\ hits # {} <=> (2 * m.attention_score < One /\ m.sample_count >= 5)
            /\ Cardinality(hits) <= 1
            /\ \A i \in hits :
                  call.value[i].alert_level =
                      IF 10 * m.attention_score < 3 * One
                      THEN "CRITICAL" ELSE "WARNING"

\* the rule has fired at level WARNING for attention exactly 0.3
C14_Witness ==
    /\ call.op = "evaluate"
    /\ 10 * call.metrics.attention_score = 3 * One
    /\ \E i \in AlertsOfType(call.value, "SUSTAINED_INATTENTION") :
          call.value[i].alert_level = "WARNING"

\* C15: an evaluate call that is not short-circuited emits a PHONE_USAGE
\* alert iff phone_risk_score > 0.4 (the phone_risk_threshold, strictly),
\* whatever the sample count; its level is CRITICAL if phone_risk_score > 0.6
\* and WARNING otherwise.
C15_ContactRiskRule ==
    (call.op = "evaluate" /\ ~ShortCircuited(call.metrics)) =>
        LET m == call.metrics
            hits == AlertsOfType(call.value, "PHONE_USAGE")
        IN  /\ hits # {} <=> 10 * m.phone_risk_score > 4 * One
            /\ Cardinality(hits) <= 1
            /\ \A i \in hits :
                  call.value[i].alert_level =
                      IF 10 * m.phone_risk_score > 6 * One
                      THEN "CRITICAL" ELSE "WARNING"

\* the rule has fired at level WARNING for a phone risk of exactly 0.6 on a
\* snapshot of 2 samples
C15_Witness ==
    /\ call.op = "evaluate"
    /\ call.metrics.sample_count = 2
    /\ 10 * call.metrics.phone_risk_score = 6 * One
    /\ \E i \in AlertsOfType(call.value, "PHONE_USAGE") :
          call.value[i].alert_level = "WARNING"

\* C16: evaluate_all gives every entity of its input the result of one
\* evaluate call made on the engine as it was before (alerts and slot), returns
\* exactly the entities whose alert list is non-empty, each with that list,
\* and touches no entity outside the input.
C16_EvaluateAll ==
    [][ call'.op = "evaluate_all" =>
          LET input == call'.all_behavioral_metrics
              result == call'.value
          IN  /\ DOMAIN result \subseteq DOMAIN input
              /\ \A x \in DOMAIN result : result[x] # << >>
              /\ \A x \in DOMAIN input :
                    LET once == Evaluate(RuleConfig, previous_metrics, input[x])
                    IN  /\ x \in DOMAIN result <=> once.alerts # << >>
                        /\ x \in DOMAIN result => result[x] = once.alerts
                        /\ x \in DOMAIN previous_metrics'
                              <=> x \in DOMAIN once.previous_metrics
                        /\ x \in DOMAIN previous_metrics'
                              => previous_metrics'[x] = once.previous_metrics[x]
              /\ \A x \in TrackIds \ DOMAIN input :
                    /\ x \in DOMAIN previous_metrics' <=> x \in DOMAIN previous_metrics
                    /\ x \in DOMAIN previous_metrics
                          => previous_metrics'[x] = previous_metrics[x]
      ]_vars

\* evaluate_all has just run on two entities: one got an attention-drop
\* alert, the other was evaluated without any alert and is left out of the
\* result
C16_Witness ==
    /\ call.op = "evaluate_all"
    /\ DOMAIN call.all_behavioral_metrics = TrackIds
    /\ \E x \in DOMAIN call.value :
          AlertsOfType(call.value[x], "ATTENTION_DROP") # {}
    /\ \E x \in TrackIds \ DOMAIN call.value :
          /\ x \in DOMAIN previous_metrics
          /\ previous_metrics[x] = call.all_behavioral_metrics[x]

----------------------------------------------------------------------------
(* Properties of the buffer queries *)

\* C17: get_student_buffer and get_student_statistics for an id without a
\* buffer (never seen or evicted) return None; the statistics of a buffer
\* without entries are the explicit empty result (feature_count 0, rates 0,
\* empty distribution); no query changes the buffer map.
C17_NoThrowQueries ==
    [][ /\ \A x \in TrackIds \ DOMAIN buffers :
              /\ BufGetStudentBuffer(x) => call'.value = None
              /\ BufGetStudentStatistics(x) => call'.value = None
        /\ \A x \in DOMAIN buffers :
              /\ BufGetStudentBuffer(x) => call'.value = buffers[x]
              /\ BufGetStudentStatistics(x) =>
                    /\ call'.value # None
                    /\ call'.value.track_id = x
                    /\ call'.value.feature_count = Len(buffers[x].features)
        /\ call'.op = "get_statistics" =>
              /\ call'.value.feature_count = 0
              /\ call'.value.avg_confidence = 0
              /\ call'.value.phone_detection_rate = 0
              /\ DOMAIN call'.value.head_direction_distribution = {}
        /\ call'.op \in {"get_student_buffer", "get_student_statistics",
                         "get_all_statistics", "get_statistics"}
              => buffers' = buffers
      ]_vars

\* get_student_statistics has just answered None after every entity that had
\* been added was evicted
C17_Witness ==
    /\ call.op = "get_student_statistics"
    /\ call.value = None
    /\ nobs > 0
    /\ DOMAIN buffers = {}

----------------------------------------------------------------------------
(* Properties of the phone association *)

\* the unit cells of the pixel grid covered by a box
Cells(box) ==
    {<< i, j >> : i \in box[1]..(box[3] - 1), j \in box[2]..(box[4] - 1)}

\* the phone box is associated with the student box under the policy of the
\* run, areas being counted in cells: iou: IoU > iou_threshold; center: the
\* centre of the phone box is in the (closed) student box; ratio, and any
\* other mode name: intersection / phone area >= phone_overlap_threshold
AssociatedByPolicy(config, student_box, phone_box) ==
    LET inter == Cardinality(Cells(student_box) \cap Cells(phone_box))
        union == Cardinality(Cells(student_box) \cup Cells(phone_box))
        phone == Cardinality(Cells(phone_box))
    IN  CASE config.phone_overlap_mode = "iou" ->
                union > 0 /\ inter * One > config.iou_threshold * union
          [] config.phone_overlap_mode = "center" ->
                \E cx2 \in (2 * student_box[1])..(2 * student_box[3]),
                   cy2 \in (2 * student_box[2])..(2 * student_box[4]) :
                    /\ cx2 = phone_box[1] + phone_box[3]
                    /\ cy2 = phone_box[2] + phone_box[4]
          [] OTHER ->
                phone > 0 /\ inter * One >= config.phone_overlap_threshold * phone

\* the sequence s from its last element to its first
Reversed(s) == [i \in 1..Len(s) |-> s[Len(s) + 1 - i]]

\* C18: the student is flagged in contact iff at least one phone box of the
\* frame is associated with its box under the policy of the run; with no
\* phone box it is not in contact, and the order of the phone boxes does not
\* matter.
C18_ContactAssociation ==
    call.op = "fusion" =>
        /\ call.has_phone
              <=> \E i \in 1..Len(call.phone_boxes) :
                      AssociatedByPolicy(call.config, call.bbox, call.phone_boxes[i])
        /\ call.phone_boxes = << >> => ~call.has_phone
        /\ call.has_phone
              = HasPhone(call.config, call.bbox, Reversed(call.phone_boxes))

\* under "iou" with threshold 0.5 a student was flagged by the second of two
\* phone boxes, the first having IoU exactly 0.5 with its box
C18_Witness ==
    /\ call.op = "fusion"
    /\ call.config.phone_overlap_mode = "iou"
    /\ call.config.iou_threshold = One \div 2
    /\ call.has_phone
    /\ Len(call.phone_boxes) = 2
    /\ 2 * Iou(call.bbox, call.phone_boxes[1]).num
          = Iou(call.bbox, call.phone_boxes[1]).den

----------------------------------------------------------------------------
(* Properties of aggregate_all *)

\* C19 as stated: every entity with a supplied risk has that risk as its
\* phone_risk_score, and every other entity has the contact rate of its
\* window, clamped to [0, 1].
C19_PhoneRiskSource ==
    call.op = "aggregate_all" =>
        \A x \in DOMAIN call.value :
            IF x \in DOMAIN call.raw_phone_risk
            THEN call.value[x].phone_risk_score = call.raw_phone_risk[x]
            ELSE \/ call.value[x].phone_risk_score
                       = call.all_buffer_stats[x].phone_detection_rate
                 \/ /\ call.all_buffer_stats[x].phone_detection_rate > One
                    /\ call.value[x].phone_risk_score = One
                 \/ /\ call.all_buffer_stats[x].phone_detection_rate < 0
                    /\ call.value[x].phone_risk_score = 0

\* C19, for the windows it holds for: aggregate_all returns one snapshot per
\* entity of the statistics; for an entity whose window has a sample,
\* phone_risk_score is the risk supplied for that entity (0.0 included), and
\* the clamped contact rate of its window when none is supplied; for an
\* entity whose window is empty it is 0.0, supplied risk or not.
C19_PhoneRiskSourceNonEmpty ==
    call.op = "aggregate_all" =>
        /\ DOMAIN call.value = DOMAIN call.all_buffer_stats
        /\ \A x \in DOMAIN call.value :
              IF call.all_buffer_stats[x].feature_count = 0
              THEN call.value[x].phone_risk_score = 0
              ELSE IF x \in DOMAIN call.raw_phone_risk
              THEN call.value[x].phone_risk_score = call.raw_phone_risk[x]
              ELSE \/ call.value[x].phone_risk_score
                         = call.all_buffer_stats[x].phone_detection_rate
                   \/ /\ call.all_buffer_stats[x].phone_detection_rate > One
                      /\ call.value[x].phone_risk_score = One
                   \/ /\ call.all_buffer_stats[x].phone_detection_rate < 0
                      /\ call.value[x].phone_risk_score = 0

\* two entities aggregated together: one in contact in its whole window with
\* a supplied risk of 0.0, the other without a supplied risk
C19_Witness ==
    /\ call.op = "aggregate_all"
    /\ DOMAIN call.value = {1, 2}
    /\ DOMAIN call.raw_phone_risk = {1}
    /\ call.raw_phone_risk[1] = 0
    /\ call.all_buffer_stats[1].phone_detection_rate = One
    /\ call.value[1].phone_risk_score = 0
    /\ call.all_buffer_stats[2].phone_detection_rate = One
    /\ call.value[2].phone_risk_score = One

----------------------------------------------------------------------------
(* Properties of the primary behaviour *)

\* the number of observations in the window of x made in contact
ContactsInWindow(x) ==
    Cardinality({i \in 1..Len(buffers[x].features) :
                    buffers[x].features[i].phone_detected})

\* primary_behavior follows the rule: distracted_phone iff more than 0.3 of
\* the window's observations were in contact, else distracted_other iff the
\* attention score is below 0.5, else attentive
PrimaryBehaviorRule(x) ==
    behavioral_metrics[x].primary_behavior =
        IF 10 * ContactsInWindow(x) > 3 * Len(buffers[x].features)
        THEN "distracted_phone"
        ELSE IF 2 * behavioral_metrics[x].attention_score < One
        THEN "distracted_other"
        ELSE "attentive"

\* x was observed at t = 0, 1, 2 facing forward without contact and at t = 3
\* in contact, and nothing else is in its window
ContactScenario(x) ==
    /\ timestamp = 3
    /\ Len(buffers[x].features) = 4
    /\ QuietHistory(x, 3)
    /\ LastFrameInContact(x)

\* C20 as stated: every snapshot of a non-empty window follows the rule, and
\* the snapshot of t = 3 in the end-to-end scenario is distracted_phone.
C20_PrimaryBehavior ==
    behavioral_metrics # None =>
        \A x \in DOMAIN buffers :
            Len(buffers[x].features) > 0 =>
                /\ PrimaryBehaviorRule(x)
                /\ ContactScenario(x) =>
                      behavioral_metrics[x].primary_behavior = "distracted_phone"

\* C20, with the scenario's actual outcome: every snapshot of a non-empty
\* window follows the rule; in the end-to-end scenario the contact rate at
\* t = 3 is 1/4, so the snapshot, whose phone_risk_score is 1.0, is attentive
\* when the entity faces forward at t = 3 and distracted_other otherwise.
C20_PrimaryBehaviorByRate ==
    behavioral_metrics # None =>
        \A x \in DOMAIN buffers :
            Len(buffers[x].features) > 0 =>
                /\ PrimaryBehaviorRule(x)
                /\ ContactScenario(x) =>
                      /\ behavioral_metrics[x].phone_risk_score = One
                      /\ behavioral_metrics[x].primary_behavior =
                            IF buffers[x].features[4].head_direction = "forward"
                            THEN "attentive" ELSE "distracted_other"

\* the aggregation of t = 3 has just run in the end-to-end scenario, the
\* entity still facing forward
C20_Witness ==
    /\ behavioral_metrics # None
    /\ \E x \in DOMAIN buffers :
          /\ ContactScenario(x)
          /\ buffers[x].features[4].head_direction = "forward"
          /\ behavioral_metrics[x].sample_count = 4
          /\ behavioral_metrics[x].primary_behavior = "attentive"

----------------------------------------------------------------------------
(* Properties of the trend classification *)

\* the history held for the entity of the call, empty if it has no entry
TrendHistoryOfCall ==
    IF call.track_id \in DOMAIN call.phone_history
    THEN call.phone_history[call.track_id] ELSE << >>

\* the trend of a recent mean recent_sum/recent_n against an older mean
\* older_sum/older_n: increasing if recent - older > 0.1, decreasing if
\* older - recent > 0.1, else stable
TrendOfMeans(recent_sum, recent_n, older_sum, older_n) ==
    IF 10 * (recent_sum * older_n - older_sum * recent_n) > recent_n * older_n * One
    THEN "increasing"
    ELSE IF 10 * (older_sum * recent_n - recent_sum * older_n) > recent_n * older_n * One
    THEN "decreasing"
    ELSE "stable"

----------------------------------------------------------------------------
(* Properties of the risk level *)

\* C22: in every snapshot returned by aggregate, statistics without samples
\* included, engagement_risk_level is the class of the snapshot's
\* engagement_risk_score: low below 0.33, medium from 0.33 and below 0.67,
\* high from 0.67.
C22_LevelScoreConsistency ==
    call.op = "aggregate" =>
        call.value.engagement_risk_level =
            IF 100 * call.value.engagement_risk_score < 33 * One THEN "low"
            ELSE IF 100 * call.value.engagement_risk_score < 67 * One THEN "medium"
            ELSE "high"

----------------------------------------------------------------------------
(* Properties of the head-direction distribution *)

\* the directions present in the window of the call
DirectionsOfCall ==
    {call.buffer.features[i].head_direction : i \in 1..Len(call.buffer.features)}

\* the number of observations of the window with this direction
DirectionCountOfCall(direction) ==
    Cardinality({i \in 1..Len(call.buffer.features) :
                    call.buffer.features[i].head_direction = direction})

\* the sum of the fractions reported for the directions in S
RECURSIVE SumOfFractions(_, _)
SumOfFractions(dist, S) ==
    IF S = {} THEN 0
    ELSE LET d == CHOOSE d \in S : TRUE
         IN  dist[d] + SumOfFractions(dist, S \ {d})

\* C23 as stated: for a non-empty buffer the distribution holds exactly the
\* directions present in the window, each with the fraction
\* count/sample_count, and the fractions sum to 1.
C23_DistributionSumsToOne ==
    (call.op = "get_statistics" /\ call.buffer.features # << >>) =>
        LET dist == call.value.head_direction_distribution
        IN  /\ DOMAIN dist = DirectionsOfCall
            /\ \A d \in DOMAIN dist :
                  dist[d] * call.value.feature_count = DirectionCountOfCall(d) * One
            /\ SumOfFractions(dist, DOMAIN dist) = One

\* C23, with the rounding of the code: the distribution holds exactly the
\* directions present in the window, each with count/sample_count rounded to
\* 3 decimals (a multiple of 0.001 at most 0.0005 away from it), so that the
\* fractions sum to 1 up to 0.0005 per direction; three directions seen once
\* each are reported as 0.333 each.
C23_DistributionRounded ==
    (call.op = "get_statistics" /\ call.buffer.features # << >>) =>
        LET dist == call.value.head_direction_distribution
            n == call.value.feature_count
            sum == SumOfFractions(dist, DOMAIN dist)
        IN  /\ n = Len(call.buffer.features)
            /\ DOMAIN dist = DirectionsOfCall
            /\ \A d \in DOMAIN dist :
                  /\ dist[d] % (One \div 1000) = 0
                  /\ 2 * (dist[d] * n - DirectionCountOfCall(d) * One) <= n * (One \div 1000)
                  /\ 2 * (DirectionCountOfCall(d) * One - dist[d] * n) <= n * (One \div 1000)
            /\ 2 * (sum - One) <= Cardinality(DOMAIN dist) * (One \div 1000)
            /\ 2 * (One - sum) <= Cardinality(DOMAIN dist) * (One \div 1000)
            /\ (n = 3 /\ Cardinality(DOMAIN dist) = 3) => sum = 999 * (One \div 1000)

\* the statistics of a window of three observations with three different
\* directions have been computed
C23_Witness ==
    /\ call.op = "get_statistics"
    /\ Len(call.buffer.features) = 3
    /\ Cardinality(DirectionsOfCall) = 3
    /\ call.value.head_direction_distribution["down"] = 333 * (One \div 1000)

----------------------------------------------------------------------------
(* Properties of the rule memory *)

\* the rule memory reduced to the slot of x
OnlySlot(prev_metrics, x) ==
    [y \in DOMAIN prev_metrics \cap {x} |-> prev_metrics[y]]

\* the alert list evaluate_all reports for x, empty if x is left out
AlertsFor(result, x) ==
    IF x \in DOMAIN result THEN result[x] ELSE << >>

\* C24: in evaluate_all the alerts of an entity and its slot afterwards are
\* those of one evaluate call made on a memory holding that entity's slot
\* alone; they are the same for every order of evaluation and for every
\* choice of the other entities' snapshots, and the slot of an entity that
\* is not evaluated is left as it was.
C24_RuleMemoryIsolation ==
    [][ call'.op = "evaluate_all" =>
          LET input == call'.all_behavioral_metrics
          IN  /\ \A x \in DOMAIN input :
                    LET alone == Evaluate(RuleConfig,
                                          OnlySlot(previous_metrics, x), input[x])
                    IN  /\ AlertsFor(call'.value, x) = alone.alerts
                        /\ OnlySlot(previous_metrics', x)
                              = OnlySlot(alone.previous_metrics, x)
                        /\ \A others \in EvaluateAllInputs :
                              (x \in DOMAIN others /\ others[x] = input[x]) =>
                                  \A order \in Orders(DOMAIN others) :
                                      AlertsFor(EvaluateAll(order, RuleConfig,
                                                            previous_metrics,
                                                            others).all_alerts, x)
                                          = AlertsFor(call'.value, x)
              /\ \A x \in TrackIds \ DOMAIN input :
                    OnlySlot(previous_metrics', x) = OnlySlot(previous_metrics, x)
      ]_vars

\* evaluate_all has just run on entity 1 alone, which got an attention-drop
\* alert, while the memory holds a snapshot of entity 2 with full attention
C24_Witness ==
    /\ call.op = "evaluate_all"
    /\ DOMAIN call.all_behavioral_metrics = {1}
    /\ 1 \in DOMAIN call.value
    /\ AlertsOfType(call.value[1], "ATTENTION_DROP") # {}
    /\ 2 \in DOMAIN previous_metrics
    /\ previous_metrics[2].attention_score = One
    /\ previous_metrics[2].sample_count = 5

----------------------------------------------------------------------------
(* Properties of the engine configuration *)

\* values of engagement_risk_threshold: 0.1, 0.6 (the default), 0.9
EngagementThresholds == {One \div 10, (One \div 10) * 6, (One \div 10) * 9}

\* C25: an engine that differs only in engagement_risk_threshold, holding
\* the same previous snapshots, returns the same alerts for an evaluate call
\* and ends with the same previous snapshots; a HIGH_RISK_BEHAVIOR alert is
\* returned exactly for the snapshots that are not short-circuited and whose
\* engagement_risk_level is high.
C25_EngagementThresholdUnused ==
    [][ call'.op = "evaluate" =>
          /\ \A threshold \in EngagementThresholds :
                LET other == Evaluate([RuleConfig EXCEPT
                                          !.engagement_risk_threshold = threshold],
                                      previous_metrics, call'.metrics)
                IN  /\ other.alerts = call'.value
                    /\ other.previous_metrics = previous_metrics'
          /\ AlertsOfType(call'.value, "HIGH_RISK_BEHAVIOR") # {}
                <=> /\ ~ShortCircuited(call'.metrics)
                    /\ call'.metrics.engagement_risk_level = "high"
      ]_vars

\* a snapshot with engagement_risk_score 0.65, between the thresholds 0.6
\* and 0.9, and level medium has been evaluated without a high-risk alert
C25_Witness ==
    /\ call.op = "evaluate"
    /\ ~ShortCircuited(call.metrics)
    /\ 100 * call.metrics.engagement_risk_score = 65 * One
    /\ call.metrics.engagement_risk_level = "medium"
    /\ AlertsOfType(call.value, "HIGH_RISK_BEHAVIOR") = {}
    /\ call.value # << >>

----------------------------------------------------------------------------
(* Properties of the buffer map *)

\* C26: after every call, whatever the timestamps and for window sizes from
\* 0, every entity of the buffer map holds at least one observation and its
\* last_update is the timestamp of its last observation; the last
\* observation of an entity that was just added is the one added; and
\* get_all_statistics has no entry with feature_count 0, so that aggregating
\* its result never gives the default snapshot of an empty window.
C26_BuffersNeverEmpty ==
    [][ /\ \A x \in DOMAIN buffers' :
              /\ Len(buffers'[x].features) >= 1
              /\ buffers'[x].last_update
                    = buffers'[x].features[Len(buffers'[x].features)].timestamp
        /\ \A t \in BufTimes, student_data \in BufStudents :
              BufAdd(t, student_data) =>
                  \A x \in DOMAIN student_data :
                      /\ x \in DOMAIN buffers'
                      /\ buffers'[x].features[Len(buffers'[x].features)]
                            = [timestamp |-> t,
                               head_direction |-> student_data[x].head_direction,
                               phone_detected |-> student_data[x].phone_detected,
                               confidence |-> student_data[x].confidence]
        /\ call'.op = "get_all_statistics" =>
              /\ DOMAIN call'.value = DOMAIN buffers
              /\ \A x \in DOMAIN call'.value :
                    /\ call'.value[x].feature_count >= 1
                    /\ AggregateAll(phone_history, 0, call'.value, EmptyDict)[x].sample_count
                          >= 1
      ]_vars

\* with window_size 0 an entity was added for the third time: its buffer
\* holds the observation just added and nothing older
C26_Witness ==
    /\ call.op = "add_student_features"
    /\ window_size = 0
    /\ nobs = 3
    /\ \E x \in DOMAIN buffers :
          /\ DOMAIN buffers = {x}
          /\ Len(buffers[x].features) = 1
          /\ buffers[x].last_update = 1
          /\ buffers[x].features[1].timestamp = 1


\* the observations of a buffer that are not older than the cutoff, in their
\* order
NotOlderThan(features, cutoff_time) ==
    LET Kept(f) == f.timestamp >= cutoff_time
    IN  SelectSeq(features, Kept)

\* C27: when the timestamps of an entity are non-decreasing, an add at time t
\* leaves in its buffer the former observations with timestamp >= t -
\* window_size, in their order, followed by the new observation: exactly the
\* observations older than t - window_size are removed, and one at exactly
\* t - window_size is kept.
C27_NoOverPruning ==
    [][ \A t \in BufTimes, student_data \in BufStudents :
          BufAdd(t, student_data) =>
              \A x \in DOMAIN student_data :
                  in_order'[x] =>
                      buffers'[x].features =
                          Append(IF x \in DOMAIN buffers
                                 THEN NotOlderThan(buffers[x].features,
                                                   t - window_size)
                                 ELSE << >>,
                                 [timestamp |-> t,
                                  head_direction |-> student_data[x].head_direction,
                                  phone_detected |-> student_data[x].phone_detected,
                                  confidence |-> student_data[x].confidence])
      ]_vars

\* with window_size 1 an entity observed at 0, 0 and 1 holds the three
\* observations: the two on the edge of the window were kept
C27_Witness ==
    /\ call.op = "add_student_features"
    /\ window_size = 1
    /\ \E x \in DOMAIN buffers :
          /\ in_order[x]
          /\ Len(buffers[x].features) = 3
          /\ buffers[x].features[1].timestamp = 0
          /\ buffers[x].features[2].timestamp = 0
          /\ buffers[x].features[3].timestamp = 1

----------------------------------------------------------------------------
(* Properties of the entities absent from a frame *)

\* x has a buffer and is not among the entities the next sampled frame
\* observes (a frame that buffers nothing observes none)
AbsentFromFrame(x) ==
    /\ nframes' > nframes
    /\ x \in DOMAIN buffers
    /\ nobs' = nobs \/ x \notin DOMAIN students'

\* C28: a sampled frame leaves the fused risk and the buffer of an entity it
\* does not observe as they were, unless the sweep of the frame evicts the
\* entity; if the frame aggregates, the snapshot of such an entity is the
\* one its unchanged buffer and risk give, equal to its snapshot of the
\* previous frame except for the timestamp, and its phone_risk_score is 1.0
\* if its last frame was a contact frame.
C28_AbsentEntitiesFrozen ==
    [][ \A x \in TrackIds :
          AbsentFromFrame(x) =>
              /\ x \in DOMAIN student_phone_risk
              /\ x \in DOMAIN student_phone_risk'
              /\ student_phone_risk'[x] = student_phone_risk[x]
              /\ IF x \in DOMAIN buffers'
                 THEN buffers'[x] = buffers[x]
                 ELSE /\ x \in removed_students'
                      /\ timestamp' - buffers[x].last_update > MainTimeout
              /\ (nobs' > nobs /\ behavioral_metrics' # None /\ x \in DOMAIN buffers') =>
                    /\ x \in DOMAIN behavioral_metrics'
                    /\ behavioral_metrics'[x]
                          = Aggregate(phone_history, x, timestamp',
                                      GetStatistics(x, buffers[x]),
                                      student_phone_risk[x])
                    /\ behavioral_metrics'[x].sample_count = Len(buffers[x].features)
                    /\ behavioral_metrics # None =>
                          /\ x \in DOMAIN behavioral_metrics
                          /\ behavioral_metrics'[x]
                                = [behavioral_metrics[x] EXCEPT !.timestamp = timestamp']
                    /\ LastFrameInContact(x) =>
                          behavioral_metrics'[x].phone_risk_score = One
      ]_vars

\* an aggregation has just run on a frame that did not observe entity 1,
\* whose last frame, two frames ago, was a contact frame: its snapshot still
\* has phone_risk_score 1.0
C28_Witness ==
    /\ behavioral_metrics # None
    /\ 1 \in DOMAIN buffers
    /\ 1 \notin DOMAIN students
    /\ LastFrameInContact(1)
    /\ timestamp - buffers[1].last_update = 2
    /\ 1 \in DOMAIN behavioral_metrics
    /\ behavioral_metrics[1].phone_risk_score = One
    /\ behavioral_metrics[1].timestamp = timestamp

----------------------------------------------------------------------------
(* Properties of the snapshots the aggregator hands to the rule engine *)

\* C29: every SUSTAINED_INATTENTION alert emitted for a snapshot produced by
\* aggregate has level CRITICAL: an attention score of such a snapshot that
\* is below 0.5 is 0.0; the alert is emitted exactly for the windows of at
\* least 5 observations whose most recent direction is not forward.
C29_InattentionAlwaysCritical ==
    call.op = "aggregate_evaluate" =>
        /\ 2 * call.metrics.attention_score < One => call.metrics.attention_score = 0
        /\ \A i \in AlertsOfType(call.value, "SUSTAINED_INATTENTION") :
              call.value[i].alert_level = "CRITICAL"
        /\ AlertsOfType(call.value, "SUSTAINED_INATTENTION") # {}
              <=> /\ call.buffer_stats.feature_count >= 5
                  /\ call.buffer_stats.most_recent_direction # "forward"

\* a window of 5 observations, 2 of them forward and the last one sideways,
\* has been aggregated and evaluated, with a SUSTAINED_INATTENTION alert
C29_Witness ==
    /\ call.op = "aggregate_evaluate"
    /\ call.buffer_stats.feature_count = 5
    /\ call.buffer_stats.most_recent_direction = "left"
    /\ "forward" \in DOMAIN call.buffer_stats.head_direction_distribution
    /\ AlertsOfType(call.value, "SUSTAINED_INATTENTION") # {}


\* C30: a snapshot produced by aggregate for a window whose most recent
\* direction is forward, with a phone_risk_score in [0, 1], has
\* engagement_risk_score <= 0.35 and level low or medium, and its evaluation
\* emits no HIGH_RISK_BEHAVIOR, SUSTAINED_INATTENTION or
\* COMBINED_DISTRACTION alert.
C30_ForwardNeverHighRisk ==
    (/\ call.op = "aggregate_evaluate"
     /\ call.buffer_stats.most_recent_direction = "forward"
     /\ call.metrics.phone_risk_score >= 0
     /\ call.metrics.phone_risk_score <= One) =>
        /\ call.metrics.attention_score = One
        /\ 100 * call.metrics.engagement_risk_score <= 35 * One
        /\ call.metrics.engagement_risk_level \in {"low", "medium"}
        /\ AlertsOfType(call.value, "HIGH_RISK_BEHAVIOR") = {}
        /\ AlertsOfType(call.value, "SUSTAINED_INATTENTION") = {}
        /\ AlertsOfType(call.value, "COMBINED_DISTRACTION") = {}

\* a window of 5 observations ending forward has been aggregated with a
\* fused risk of 1.0 and evaluated: the score is 0.35, the level medium, and
\* the contact-risk alert is the only one of level CRITICAL
C30_Witness ==
    /\ call.op = "aggregate_evaluate"
    /\ call.buffer_stats.feature_count = 5
    /\ call.buffer_stats.most_recent_direction = "forward"
    /\ call.metrics.phone_risk_score = One
    /\ 100 * call.metrics.engagement_risk_score = 35 * One
    /\ call.metrics.engagement_risk_level = "medium"
    /\ AlertsOfType(call.value, "PHONE_USAGE") # {}

====
